---------------------------- MODULE Spec2Model ----------------------------
(***************************************************************************)
(* A model of the fact-extraction-and-linking pipeline of CodeGraphContext:*)
(*   - ElixirTreeSitterParser._parse_arguments   (tools/languages/elixir.py)*)
(*   - ElixirTreeSitterParser._find_functions / _find_classes /            *)
(*     _get_parent_context                       (tools/languages/elixir.py)*)
(*   - ScipIndexer.ingest_index / _process_document (tools/scip_indexer.py) *)
(* The specifications SpecArgs, SpecElixir, SpecCaller, SpecIngest and     *)
(* SpecIngestFaults share the module.  Each one leaves the variables of the*)
(* others at their idle values.                                            *)
(***************************************************************************)
EXTENDS Integers, Sequences, FiniteSets, TLC

VARIABLES
    \* ---- _parse_arguments
    argText,      \* the args_text argument, a sequence of one-character strings
    argResult,    \* the list returned for argText
    argJoined,    \* ", ".join(argResult)
    argResult2,   \* the list returned for argJoined
    argPc,        \* "idle" | "input" | "parsed" | "reparsed"
    \* ---- ElixirTreeSitterParser.parse
    exFile,       \* the source file: its definitions, in document order
    exOrder,      \* the order in which a query hands out its captures
    functions,    \* the list _find_functions returned
    classes,      \* the list _find_classes returned
    exPc,         \* "idle" | "source" | "functions" | "parsed" | "returned"
    exDep,        \* the is_dependency argument of parse
    exRecord,     \* the dictionary parse returned
    \* ---- caller resolution of _process_document
    scopeFuncs,   \* the functions list of the structural parse
    scopeRef,     \* the reference occurrence
    scopeCaller,  \* what the reference loop decided for scopeRef
    scopePc,      \* "idle" | "input" | "resolved"
    \* ---- ScipIndexer.ingest_index
    index,        \* the SCIP index: documents and external_symbols
    tsFiles,      \* relative path -> what the structural parser finds there
    graph,        \* the graph store
    before,       \* the graph store as the current run found it
    pc,           \* where ingest_index stands
    run,          \* number of the current call of ingest_index
    docIdx,       \* position in index.documents
    block,        \* which of the two hierarchy blocks is running
    step,         \* position in the loop pc names
    raised,       \* the exceptions raised so far
    session,      \* graph sessions of the current run: acquired, and held now
    \* ---- pre_scan_elixir / pre_scan_heex
    psLang,       \* "elixir" | "heex": which pre-scan runs
    psFiles,      \* the files argument, with what each file holds
    psMap,        \* imports_map
    psIdx,        \* position in files
    psCap,        \* position in the captures of the current file
    psPc,         \* "idle" | "file" | "captures" | "done" | "aborted"
    \* ---- two documents processed concurrently
    coIndex,      \* the index: its two documents
    coTs,         \* relative path -> what the structural parser finds there
    coStart,      \* the graph store before either document is processed
    coGraph,      \* the graph store
    coPos,        \* worker -> where its _process_document stands
    \* ---- the label of a definition node
    lbSymbol,     \* occ.symbol
    lbInfo,       \* symbol_map.get(occ.symbol)
    lbLabel,      \* label
    lbPc,         \* "idle" | "occurrence" | "labelled"
    \* ---- ElixirTreeSitterParser._calculate_complexity
    cxNode,       \* func_node: the syntax tree of one function definition
    cxComplexity, \* what _calculate_complexity returned
    cxPc,         \* "idle" | "node" | "counted"
    \* ---- ElixirTreeSitterParser._find_calls
    fcRoot,       \* root_node: the syntax tree of the file
    fcOrder,      \* the order in which the query hands out its captures
    fcCalls,      \* the list _find_calls returned
    fcPc,         \* "idle" | "tree" | "found"
    \* ---- BundleRegistry.find_bundle_download_info
    brBundles,    \* what fetch_available_bundles returned
    brName,       \* the name argument
    brResult,     \* what find_bundle_download_info returned
    brPc,         \* "idle" | "call" | "returned"
    \* ---- BundleRegistry.download_file
    dlBody,       \* the chunks response.iter_content yields
    dlFile,       \* what is at output_path
    dlCallback,   \* whether a progress_callback was passed
    dlPos,        \* position in the chunks
    dlReported,   \* the sizes reported to progress_callback
    dlFailure,    \* the exception raised inside the try block
    dlResult,     \* what download_file returned, or raised to its caller
    dlPc          \* "idle" | "request" | "status" | "open" | "chunks" | "except" | "returned" | "raised"

argsVars == <<argText, argResult, argJoined, argResult2, argPc>>
exVars == <<exFile, exOrder, functions, classes, exPc, exDep, exRecord>>

scopeVars == <<scopeFuncs, scopeRef, scopeCaller, scopePc>>
ingVars == <<index, tsFiles, graph, before, pc, run, docIdx, block, step, raised,
            session>>

psVars == <<psLang, psFiles, psMap, psIdx, psCap, psPc>>
coVars == <<coIndex, coTs, coStart, coGraph, coPos>>

lbVars == <<lbSymbol, lbInfo, lbLabel, lbPc>>

cxVars == <<cxNode, cxComplexity, cxPc>>

fcVars == <<fcRoot, fcOrder, fcCalls, fcPc>>

brVars == <<brBundles, brName, brResult, brPc>>

dlVars == <<dlBody, dlFile, dlCallback, dlPos, dlReported, dlFailure, dlResult, dlPc>>

vars == <<argsVars, exVars, scopeVars, ingVars, psVars, coVars, lbVars, cxVars, fcVars, brVars, dlVars>>

-----------------------------------------------------------------------------
(***************************************************************************)
(* Text: Python str values are sequences of one-character strings.         *)
(***************************************************************************)

\* Longest argument text the argument-splitting specification enumerates.
MaxLen == 6

ArgAlphabet == {"(", ")", "[", "]", ",", " ", "a"}

Whitespace == {" "}
Openers == {"(", "{", "["}
Closers == {")", "}", "]"}
Parens  == {"(", ")"}

RECURSIVE LStrip(_, _)
LStrip(s, cs) ==
    IF s # <<>> /\ Head(s) \in cs THEN LStrip(Tail(s), cs) ELSE s

RECURSIVE RStrip(_, _)
RStrip(s, cs) ==
    IF s # <<>> /\ s[Len(s)] \in cs THEN RStrip(SubSeq(s, 1, Len(s) - 1), cs) ELSE s

\* str.strip(chars): every leading and every trailing character of the set goes.
StripChars(s, cs) == RStrip(LStrip(s, cs), cs)

\* str.strip(): whitespace.
StripWs(s) == StripChars(s, Whitespace)

\* args.append(arg) guarded by `if arg:`
AppendIfNonEmpty(args, arg) == IF arg # <<>> THEN Append(args, arg) ELSE args

\* The character loop of _parse_arguments, from position i on.
RECURSIVE SplitLoop(_, _, _, _, _)
SplitLoop(t, i, depth, current, args) ==
    IF i > Len(t)
    THEN AppendIfNonEmpty(args, StripWs(current))
    ELSE LET ch == t[i] IN
         IF ch \in Openers
         THEN SplitLoop(t, i + 1, depth + 1, Append(current, ch), args)
         ELSE IF ch \in Closers
         THEN SplitLoop(t, i + 1, depth - 1, Append(current, ch), args)
         ELSE IF ch = "," /\ depth = 0
         THEN SplitLoop(t, i + 1, depth, <<>>, AppendIfNonEmpty(args, StripWs(current)))
         ELSE SplitLoop(t, i + 1, depth, Append(current, ch), args)

\* args_text.strip("()")
StripOuterParens(t) == StripChars(t, Parens)

\* ElixirTreeSitterParser._parse_arguments
ParseArguments(t) ==
    LET s == StripOuterParens(t) IN
    IF StripWs(s) = <<>> THEN <<>> ELSE SplitLoop(s, 1, 0, <<>>, <<>>)

\* sep.join(items)
RECURSIVE Join(_, _)
Join(items, sep) ==
    IF items = <<>> THEN <<>>
    ELSE IF Len(items) = 1 THEN items[1]
    ELSE items[1] \o sep \o Join(Tail(items), sep)

CommaSpace == <<",", " ">>

-----------------------------------------------------------------------------
(***************************************************************************)
(* What the argument splitter is meant to return, stated without the loop. *)
(***************************************************************************)

Closer(o) == IF o = "(" THEN ")" ELSE IF o = "[" THEN "]" ELSE "}"

\* The stack of open delimiters after reading t[1..i]; <<"!">> once they mismatch.
RECURSIVE OpenStack(_, _)
OpenStack(t, i) ==
    IF i = 0 THEN <<>>
    ELSE LET st == OpenStack(t, i - 1)
             ch == t[i] IN
         IF st = <<"!">> THEN st
         ELSE IF ch \in Openers THEN Append(st, ch)
         ELSE IF ch \in Closers
         THEN IF st # <<>> /\ Closer(st[Len(st)]) = ch
              THEN SubSeq(st, 1, Len(st) - 1)
              ELSE <<"!">>
         ELSE st

Balanced(t) == OpenStack(t, Len(t)) = <<>>

\* t is one outer pair of parentheses around a body: the first character opens
\* a parenthesis that is closed by the last character.
Wrapped(t) ==
    /\ Len(t) >= 2
    /\ t[1] = "("
    /\ t[Len(t)] = ")"
    /\ \A i \in 1..(Len(t) - 1) : OpenStack(t, i) # <<>>

Unwrapped(t) == IF Wrapped(t) THEN SubSeq(t, 2, Len(t) - 1) ELSE t

\* Positions of the commas of t at nesting depth 0.
TopCommas(t) == {i \in 1..Len(t) : t[i] = "," /\ OpenStack(t, i - 1) = <<>>}

\* The items of t between its depth-0 commas from position `from` on, trimmed,
\* empty ones left out.
RECURSIVE ItemsFrom(_, _)
ItemsFrom(t, from) ==
    LET later == {i \in TopCommas(t) : i >= from} IN
    IF later = {}
    THEN AppendIfNonEmpty(<<>>, StripWs(SubSeq(t, from, Len(t))))
    ELSE LET c == CHOOSE i \in later : \A j \in later : i <= j
             item == StripWs(SubSeq(t, from, c - 1)) IN
         (IF item # <<>> THEN <<item>> ELSE <<>>) \o ItemsFrom(t, c + 1)

TopLevelItems(t) == ItemsFrom(Unwrapped(t), 1)

-----------------------------------------------------------------------------
(***************************************************************************)
(* SpecArgs: _parse_arguments applied to every text of balanced delimiters *)
(* up to MaxLen (the text of an arguments node), then to its own           *)
(* re-serialised result.                                                   *)
(***************************************************************************)

ArgTexts == UNION {[1..n -> ArgAlphabet] : n \in 0..MaxLen}

ArgsIdle ==
    /\ argText = <<>>
    /\ argResult = <<>>
    /\ argJoined = <<>>
    /\ argResult2 = <<>>
    /\ argPc = "idle"

ExIdle ==
    /\ exFile = [n |-> 0, parent |-> <<>>, form |-> <<>>]
    /\ exOrder = "match"
    /\ functions = <<>>
    /\ classes = <<>>
    /\ exPc = "idle"
    /\ exDep = FALSE
    /\ exRecord = [functions |-> <<>>, classes |-> <<>>, is_dependency |-> FALSE,
                   lang |-> "none"]

ScopeIdle ==
    /\ scopeFuncs = <<>>
    /\ scopeRef = [range |-> <<0, 0>>, symbol |-> <<>>, symbol_roles |-> 0]
    /\ scopeCaller = [outcome |-> "pending",
                      caller |-> [name |-> <<>>, line_number |-> 0, end_line |-> 0]]
    /\ scopePc = "idle"

IngestIdle ==
    /\ index = [documents |-> <<>>, external_symbols |-> <<>>]
    /\ tsFiles = <<>>
    /\ graph = [nodes |-> <<>>, edges |-> <<>>, verified |-> {}]
    /\ before = [nodes |-> <<>>, edges |-> <<>>, verified |-> {}]
    /\ pc = "idle"
    /\ run = 0
    /\ docIdx = 0
    /\ block = 0
    /\ step = 0
    /\ raised = {}
    /\ session = [opened |-> 0, open |-> 0]

PreScanIdle ==
    /\ psLang = "none"
    /\ psFiles = <<>>
    /\ psMap = <<>>
    /\ psIdx = 0
    /\ psCap = 0
    /\ psPc = "idle"

ConcurrentIdle ==
    /\ coIndex = [documents |-> <<>>, external_symbols |-> <<>>]
    /\ coTs = <<>>
    /\ coStart = [nodes |-> <<>>, edges |-> <<>>, verified |-> {}]
    /\ coGraph = [nodes |-> <<>>, edges |-> <<>>, verified |-> {}]
    /\ coPos = <<>>

LabelIdle ==
    /\ lbSymbol = <<>>
    /\ lbInfo = [kind |-> 0, display_name |-> <<>>]
    /\ lbLabel = "none"
    /\ lbPc = "idle"

ComplexityIdle ==
    /\ cxNode = <<>>
    /\ cxComplexity = 0
    /\ cxPc = "idle"

FindCallsIdle ==
    /\ fcRoot = <<>>
    /\ fcOrder = "match"
    /\ fcCalls = <<>>
    /\ fcPc = "idle"

RegistryIdle ==
    /\ brBundles = <<>>
    /\ brName = <<>>
    /\ brResult = <<>>
    /\ brPc = "idle"

DownloadIdle ==
    /\ dlBody = <<>>
    /\ dlFile = [exists |-> FALSE, content |-> <<>>]
    /\ dlCallback = FALSE
    /\ dlPos = 0
    /\ dlReported = <<>>
    /\ dlFailure = "none"
    /\ dlResult = "none"
    /\ dlPc = "idle"

InitArgs ==
    /\ DownloadIdle
    /\ RegistryIdle
    /\ FindCallsIdle
    /\ ComplexityIdle
    /\ ExIdle
    /\ ScopeIdle
    /\ IngestIdle
    /\ PreScanIdle
    /\ ConcurrentIdle
    /\ LabelIdle
    /\ argText \in ArgTexts
    /\ Balanced(argText)
    /\ argResult = <<>>
    /\ argJoined = <<>>
    /\ argResult2 = <<>>
    /\ argPc = "input"

\* args = self._parse_arguments(args_text)
ParseArgs ==
    /\ argPc = "input"
    /\ argResult' = ParseArguments(argText)
    /\ argPc' = "parsed"
    /\ UNCHANGED <<argText, argJoined, argResult2, exVars, scopeVars, ingVars, psVars, coVars, lbVars, cxVars, fcVars, brVars, dlVars>>

\* self._parse_arguments(", ".join(args))
ReparseArgs ==
    /\ argPc = "parsed"
    /\ argJoined' = Join(argResult, CommaSpace)
    /\ argResult2' = ParseArguments(Join(argResult, CommaSpace))
    /\ argPc' = "reparsed"
    /\ UNCHANGED <<argText, argResult, exVars, scopeVars, ingVars, psVars, coVars, lbVars, cxVars, fcVars, brVars, dlVars>>

NextArgs == ParseArgs \/ ReparseArgs

SpecArgs == InitArgs /\ [][NextArgs]_vars

\* C5: for a text with balanced delimiters, wrapped in one outer pair of
\* parentheses or not, the list returned is exactly the items between the
\* depth-0 commas, each trimmed and otherwise unchanged, in order.
C5_SplitsAtTopLevelCommas ==
    (argPc \in {"parsed", "reparsed"} /\ Balanced(argText))
        => argResult = TopLevelItems(argText)

\* C6: joining the returned list with ", " and splitting again returns the
\* same list, for every text.
C6_ReserialisationIdempotent ==
    argPc = "reparsed" => argResult2 = argResult

-----------------------------------------------------------------------------
(***************************************************************************)
(* Elixir syntax trees.  A source file is a list of definitions in         *)
(* document order; parent[i] is the definition whose do-block holds        *)
(* definition i (0 at top level).  Every definition takes a header line    *)
(* and an `end` line, its nested definitions lie between the two.          *)
(*   form "def"/"defp":   def name(x) do .. end   (arguments -> call)      *)
(*   form "def_bare":     def name do .. end      (arguments -> identifier)*)
(*   form "defmodule":    defmodule Name do .. end  (arguments -> alias)   *)
(*   form "defprotocol":  defprotocol Name do .. end (arguments -> alias)  *)
(* The nodes of definition i are <<i, role>>: "call" (the whole            *)
(* definition), "kw" (its identifier), "args" (its arguments), "head" (the *)
(* call name(x)), "name", "params" (the arguments (x)), "block".           *)
(***************************************************************************)

\* Most definitions in one source file.
MaxDefs == 3

Forms == {"def", "defp", "def_bare", "defmodule", "defprotocol"}
FunctionForms == {"def", "defp", "def_bare"}
ContainerForms == {"defmodule", "defprotocol"}

None == "None"

RECURSIVE Ancestors(_, _)
Ancestors(F, i) ==
    IF i = 0 \/ F.parent[i] = 0 THEN {}
    ELSE {F.parent[i]} \cup Ancestors(F, F.parent[i])

\* Document order: a definition lies in the block of the previous definition,
\* of one of that definition's ancestors, or at top level.
WellNested(F) ==
    \A i \in 1..F.n :
        F.parent[i] \in {0} \cup (IF i = 1 THEN {} ELSE {i - 1} \cup Ancestors(F, i - 1))

Files ==
    UNION {{F \in [n : {k}, parent : [1..k -> 0..k], form : [1..k -> Forms]] :
                WellNested(F)} : k \in 0..MaxDefs}

Root == <<0, "root">>

Keyword(form) == IF form = "def_bare" THEN "def" ELSE form

DefName(F, i) ==
    (IF F.form[i] = "defmodule" THEN "M"
     ELSE IF F.form[i] = "defprotocol" THEN "P" ELSE "f") \o ToString(i)

Roles(form) ==
    IF form \in {"def", "defp"}
    THEN {"call", "kw", "args", "head", "name", "params", "block"}
    ELSE {"call", "kw", "args", "name", "block"}

Nodes(F) == {Root} \cup UNION {{<<i, r>> : r \in Roles(F.form[i])} : i \in 1..F.n}

\* 1-based line of the header and of the `end` of definition i.
OpenLine(F, i) == i + Cardinality({j \in 1..(i - 1) : j \notin Ancestors(F, i)})
CloseLine(F, i) ==
    OpenLine(F, i) + 2 * Cardinality({j \in 1..F.n : i \in Ancestors(F, j)}) + 1

\* The definitions directly in the block of p (p = 0: at top level), in order.
RECURSIVE ChildDefs(_, _, _)
ChildDefs(F, p, from) ==
    IF from > F.n THEN <<>>
    ELSE (IF F.parent[from] = p THEN << <<from, "call">> >> ELSE <<>>)
            \o ChildDefs(F, p, from + 1)

\* node.type
NodeType(F, nd) ==
    LET r == nd[2] IN
    IF r = "root" THEN "source_file"
    ELSE IF r \in {"call", "head"} THEN "call"
    ELSE IF r = "kw" THEN "identifier"
    ELSE IF r \in {"args", "params"} THEN "arguments"
    ELSE IF r = "block" THEN "do_block"
    ELSE IF F.form[nd[1]] \in ContainerForms THEN "alias" ELSE "identifier"

\* node.children
NodeChildren(F, nd) ==
    LET i == nd[1]
        r == nd[2] IN
    IF r = "root" THEN ChildDefs(F, 0, 1)
    ELSE IF r = "call" THEN << <<i, "kw">>, <<i, "args">>, <<i, "block">> >>
    ELSE IF r = "args"
         THEN IF F.form[i] \in {"def", "defp"} THEN << <<i, "head">> >>
              ELSE << <<i, "name">> >>
    ELSE IF r = "head" THEN << <<i, "name">>, <<i, "params">> >>
    ELSE IF r = "block" THEN ChildDefs(F, i, 1)
    ELSE <<>>

\* node.parent; None for the root
NodeParent(F, nd) ==
    LET i == nd[1]
        r == nd[2] IN
    IF r = "root" THEN <<0, None>>
    ELSE IF r = "call"
         THEN IF F.parent[i] = 0 THEN Root ELSE <<F.parent[i], "block">>
    ELSE IF r \in {"kw", "args", "block"} THEN <<i, "call">>
    ELSE IF r = "head" THEN <<i, "args">>
    ELSE IF r = "params" THEN <<i, "head">>
    ELSE IF F.form[i] \in {"def", "defp"} THEN <<i, "head">> ELSE <<i, "args">>

\* node.start_byte and node.end_byte: ten bytes to a line.
StartByte(F, nd) ==
    LET i == nd[1]
        r == nd[2] IN
    IF r = "root" THEN 0
    ELSE 10 * OpenLine(F, i) +
         (IF r \in {"call", "kw"} THEN 0
          ELSE IF r \in {"args", "head", "name"} THEN 2
          ELSE IF r = "params" THEN 4 ELSE 7)

EndByte(F, nd) ==
    LET i == nd[1]
        r == nd[2] IN
    IF r = "root" THEN 10 * (2 * F.n + 1)
    ELSE IF r \in {"call", "block"} THEN 10 * CloseLine(F, i) + 3
    ELSE 10 * OpenLine(F, i) +
         (IF r = "kw" THEN 1
          ELSE IF r = "name" THEN IF F.form[i] \in {"def", "defp"} THEN 3 ELSE 6
          ELSE 6)

\* node.start_point[0] and node.end_point[0]: 0-based rows.
StartRow(F, nd) == IF nd[2] = "root" THEN 0 ELSE OpenLine(F, nd[1]) - 1
EndRow(F, nd) ==
    IF nd[2] = "root" THEN 2 * F.n
    ELSE IF nd[2] \in {"call", "block"} THEN CloseLine(F, nd[1]) - 1
    ELSE OpenLine(F, nd[1]) - 1

\* _get_node_text, for the nodes whose text the parser reads.
NodeText(F, nd) ==
    LET i == nd[1]
        r == nd[2] IN
    IF r = "kw" THEN Keyword(F.form[i])
    ELSE IF r = "name" THEN DefName(F, i)
    ELSE None

\* The text of an arguments node (x), as characters.
ParamsText == <<"(", "x", ")">>

-----------------------------------------------------------------------------
(***************************************************************************)
(* Queries.  A match binds capture names to nodes; a query hands out the   *)
(* (node, capture_name) pairs of its matches as one list.  Matches come in *)
(* document order.  exOrder = "match": the pairs of one match stay         *)
(* together; exOrder = "name": the pairs are grouped by capture name.      *)
(***************************************************************************)

CaptureOrders == {"match", "name"}

ChildrenOfType(F, nd, ty) ==
    SelectSeq(NodeChildren(F, nd), LAMBDA k : NodeType(F, k) = ty)

SeqToSet(s) == {s[k] : k \in DOMAIN s}

\* The call nodes of the file in document order.
RECURSIVE CallNodes(_, _)
CallNodes(F, i) ==
    IF i > F.n THEN <<>>
    ELSE << <<i, "call">> >>
            \o (IF "head" \in Roles(F.form[i]) THEN << <<i, "head">> >> ELSE <<>>)
            \o CallNodes(F, i + 1)

KidsOfType(F, nd, ty) == SeqToSet(ChildrenOfType(F, nd, ty))

\* ELIXIR_QUERIES["functions"] at call node c.
FunctionMatchesAt(F, c) ==
    UNION {UNION {UNION {
        {[def_type |-> k, func_name |-> nm, func_args |-> p, func_def |-> c] :
            nm \in KidsOfType(F, h, "identifier"), p \in KidsOfType(F, h, "arguments")} :
        h \in KidsOfType(F, a, "call")} :
        a \in KidsOfType(F, c, "arguments")} :
        k \in {x \in KidsOfType(F, c, "identifier") : NodeText(F, x) \in {"def", "defp"}}}

\* ELIXIR_QUERIES["classes"] at call node c: the defmodule pattern and the
\* defprotocol pattern.
ClassMatchesAt(F, c) ==
    UNION {UNION {
        {[call_type |-> k, module_name |-> nm, module_def |-> c] :
            nm \in KidsOfType(F, a, "alias")} :
        a \in KidsOfType(F, c, "arguments")} :
        k \in {x \in KidsOfType(F, c, "identifier") : NodeText(F, x) = "defmodule"}}
    \cup
    UNION {UNION {
        {[proto_type |-> k, proto_name |-> nm, proto_def |-> c] :
            nm \in KidsOfType(F, a, "alias")} :
        a \in KidsOfType(F, c, "arguments")} :
        k \in {x \in KidsOfType(F, c, "identifier") : NodeText(F, x) = "defprotocol"}}

FunctionCaptureNames == <<"def_type", "func_name", "func_args", "func_def">>
ClassCaptureNames ==
    <<"call_type", "module_name", "module_def", "proto_type", "proto_name", "proto_def">>

\* A set of at most one match as a list.
AsList(S) == IF S = {} THEN <<>> ELSE <<CHOOSE m \in S : TRUE>>

\* ELIXIR_QUERIES[query] at call node c.
MatchesAt(F, query, c) ==
    IF query = "functions" THEN FunctionMatchesAt(F, c) ELSE ClassMatchesAt(F, c)

CaptureNames(query) ==
    IF query = "functions" THEN FunctionCaptureNames ELSE ClassCaptureNames

\* The matches of a query over the whole tree, in document order.
RECURSIVE MatchesOver(_, _, _)
MatchesOver(F, query, calls) ==
    IF calls = <<>> THEN <<>>
    ELSE AsList(MatchesAt(F, query, Head(calls))) \o MatchesOver(F, query, Tail(calls))

\* The pairs of one match, in the order of the capture names.
RECURSIVE MatchPairs(_, _)
MatchPairs(m, names) ==
    IF names = <<>> THEN <<>>
    ELSE (IF Head(names) \in DOMAIN m THEN << <<m[Head(names)], Head(names)>> >> ELSE <<>>)
            \o MatchPairs(m, Tail(names))

RECURSIVE PairsByMatch(_, _)
PairsByMatch(ms, names) ==
    IF ms = <<>> THEN <<>>
    ELSE MatchPairs(Head(ms), names) \o PairsByMatch(Tail(ms), names)

RECURSIVE PairsByName(_, _)
PairsByName(ms, names) ==
    IF names = <<>> THEN <<>>
    ELSE PairsByMatch(ms, <<Head(names)>>) \o PairsByName(ms, Tail(names))

\* list(execute_query(self.language, query_str, root_node))
ExecuteQuery(F, query, order) ==
    LET ms == MatchesOver(F, query, CallNodes(F, 1)) IN
    IF order = "match" THEN PairsByMatch(ms, CaptureNames(query))
    ELSE PairsByName(ms, CaptureNames(query))

\* node.start_byte >= outer.start_byte and node.end_byte <= outer.end_byte
SpanContains(F, outer, node) ==
    /\ StartByte(F, node) >= StartByte(F, outer)
    /\ EndByte(F, node) <= EndByte(F, outer)

-----------------------------------------------------------------------------
(***************************************************************************)
(* ElixirTreeSitterParser._get_parent_context                              *)
(***************************************************************************)

\* The name found in the first arguments child of a definition call: the text
\* of its first alias child, or the first identifier of its first call child.
ContextName(F, curr) ==
    LET argsKids == ChildrenOfType(F, curr, "arguments")
        named == IF argsKids = <<>> THEN <<>>
                 ELSE SelectSeq(NodeChildren(F, Head(argsKids)),
                                LAMBDA ac : NodeType(F, ac) \in {"alias", "call"}) IN
    IF named = <<>> THEN None
    ELSE IF NodeType(F, Head(named)) = "alias" THEN NodeText(F, Head(named))
    ELSE LET ids == ChildrenOfType(F, Head(named), "identifier") IN
         IF ids = <<>> THEN None ELSE NodeText(F, Head(ids))

\* The loop `while curr:` from curr upwards.
RECURSIVE ContextFrom(_, _, _)
ContextFrom(F, curr, types) ==
    IF curr[2] = None THEN <<None, None, None>>
    ELSE LET ids == IF NodeType(F, curr) = "call"
                    THEN ChildrenOfType(F, curr, "identifier") ELSE <<>>
             ident == IF ids = <<>> THEN None ELSE NodeText(F, Head(ids)) IN
         IF ident \in types /\ ContextName(F, curr) # None
         THEN <<ContextName(F, curr), ident, StartRow(F, curr) + 1>>
         ELSE ContextFrom(F, NodeParent(F, curr), types)

GetParentContext(F, node, types) == ContextFrom(F, NodeParent(F, node), types)

-----------------------------------------------------------------------------
(***************************************************************************)
(* ElixirTreeSitterParser._find_functions                                  *)
(***************************************************************************)

\* captures_by_func after the first loop: one entry per func_def capture, in
\* insertion order.  'args' starts as the empty text: None and "" are the
\* same to `func_data['args'] or ""`.
SeedFunctions(caps) ==
    LET defs == SelectSeq(caps, LAMBDA c : c[2] = "func_def") IN
    [k \in DOMAIN defs |->
        [node |-> defs[k][1], name |-> None, args |-> <<>>, def_type |-> None]]

\* One capture of the second loop applied to one entry.
AttachFunctionCapture(F, data, cap) ==
    IF ~SpanContains(F, data.node, cap[1]) THEN data
    ELSE IF cap[2] = "func_name" THEN [data EXCEPT !.name = NodeText(F, cap[1])]
    ELSE IF cap[2] = "func_args" THEN [data EXCEPT !.args = ParamsText]
    ELSE IF cap[2] = "def_type" THEN [data EXCEPT !.def_type = NodeText(F, cap[1])]
    ELSE data

\* The second loop: every capture, against every entry.
RECURSIVE CorrelateFunctions(_, _, _)
CorrelateFunctions(F, byFunc, caps) ==
    IF caps = <<>> THEN byFunc
    ELSE CorrelateFunctions(F,
            [k \in DOMAIN byFunc |-> AttachFunctionCapture(F, byFunc[k], Head(caps))],
            Tail(caps))

\* visibility = "private" if def_type == "defp" else "public"
Visibility(def_type) ==
    IF (IF def_type = None THEN "def" ELSE def_type) = "defp" THEN "private" ELSE "public"

FunctionEntry(F, data) ==
    [name |-> data.name,
     line_number |-> StartRow(F, data.node) + 1,
     end_line |-> EndRow(F, data.node) + 1,
     args |-> ParseArguments(data.args),
     visibility |-> Visibility(data.def_type),
     context |-> GetParentContext(F, data.node, {"defmodule"})[1],
     lang |-> "elixir",
     is_dependency |-> FALSE]

\* The third loop: an entry for every captures_by_func value with a name.
RECURSIVE EmitFunctions(_, _)
EmitFunctions(F, byFunc) ==
    IF byFunc = <<>> THEN <<>>
    ELSE (IF Head(byFunc).name # None THEN <<FunctionEntry(F, Head(byFunc))>> ELSE <<>>)
            \o EmitFunctions(F, Tail(byFunc))

FindFunctions(F, order) ==
    LET caps == ExecuteQuery(F, "functions", order) IN
    EmitFunctions(F, CorrelateFunctions(F, SeedFunctions(caps), caps))

-----------------------------------------------------------------------------
(***************************************************************************)
(* ElixirTreeSitterParser._find_classes                                    *)
(***************************************************************************)

SeedClasses(caps) ==
    LET defs == SelectSeq(caps, LAMBDA c : c[2] \in {"module_def", "proto_def"}) IN
    [k \in DOMAIN defs |-> [node |-> defs[k][1], name |-> None, kind |-> defs[k][2]]]

\* A name capture goes to the first entry, in insertion order, whose span
\* contains it (the loop over the entries ends with `break`).
AttachClassName(F, byClass, cap) ==
    LET holders == {k \in DOMAIN byClass : SpanContains(F, byClass[k].node, cap[1])} IN
    IF cap[2] \notin {"module_name", "proto_name"} \/ holders = {} THEN byClass
    ELSE LET first == CHOOSE k \in holders : \A j \in holders : k <= j IN
         [byClass EXCEPT ![first].name = NodeText(F, cap[1])]

RECURSIVE CorrelateClasses(_, _, _)
CorrelateClasses(F, byClass, caps) ==
    IF caps = <<>> THEN byClass
    ELSE CorrelateClasses(F, AttachClassName(F, byClass, Head(caps)), Tail(caps))

ClassEntry(F, data) ==
    LET ctx == GetParentContext(F, data.node, {"defmodule"}) IN
    [name |-> data.name,
     line_number |-> StartRow(F, data.node) + 1,
     end_line |-> EndRow(F, data.node) + 1,
     context |-> ctx[1],
     context_type |-> ctx[2],
     kind |-> IF data.kind = "proto_def" THEN "protocol" ELSE "module",
     lang |-> "elixir",
     is_dependency |-> FALSE]

RECURSIVE EmitClasses(_, _)
EmitClasses(F, byClass) ==
    IF byClass = <<>> THEN <<>>
    ELSE (IF Head(byClass).name # None THEN <<ClassEntry(F, Head(byClass))>> ELSE <<>>)
            \o EmitClasses(F, Tail(byClass))

FindClasses(F, order) ==
    LET caps == ExecuteQuery(F, "classes", order) IN
    EmitClasses(F, CorrelateClasses(F, SeedClasses(caps), caps))

-----------------------------------------------------------------------------
(***************************************************************************)
(* SpecElixir: parse() on every source file of up to MaxDefs definitions.  *)
(***************************************************************************)

InitElixir ==
    /\ DownloadIdle
    /\ RegistryIdle
    /\ FindCallsIdle
    /\ ComplexityIdle
    /\ ArgsIdle
    /\ ScopeIdle
    /\ IngestIdle
    /\ PreScanIdle
    /\ ConcurrentIdle
    /\ LabelIdle
    /\ exFile \in Files
    /\ exOrder \in CaptureOrders
    /\ functions = <<>>
    /\ classes = <<>>
    /\ exPc = "source"
    /\ exDep \in BOOLEAN
    /\ exRecord = [functions |-> <<>>, classes |-> <<>>, is_dependency |-> FALSE,
                   lang |-> "none"]

\* functions = self._find_functions(root_node)
ParseFunctions ==
    /\ exPc = "source"
    /\ functions' = FindFunctions(exFile, exOrder)
    /\ exPc' = "functions"
    /\ UNCHANGED <<exFile, exOrder, classes, exDep, exRecord, argsVars, scopeVars, ingVars, psVars, coVars, lbVars, cxVars, fcVars, brVars, dlVars>>

\* classes = self._find_classes(root_node)
ParseClasses ==
    /\ exPc = "functions"
    /\ classes' = FindClasses(exFile, exOrder)
    /\ exPc' = "parsed"
    /\ UNCHANGED <<exFile, exOrder, functions, exDep, exRecord, argsVars, scopeVars, ingVars, psVars, coVars, lbVars, cxVars, fcVars, brVars, dlVars>>

\* return {..., "is_dependency": is_dependency, "lang": self.language_name}
ReturnRecord ==
    /\ exPc = "parsed"
    /\ exRecord' = [functions |-> functions, classes |-> classes,
                    is_dependency |-> exDep, lang |-> "elixir"]
    /\ exPc' = "returned"
    /\ UNCHANGED <<exFile, exOrder, functions, classes, exDep, argsVars, scopeVars, ingVars, psVars, coVars, lbVars, cxVars, fcVars, brVars, dlVars>>

NextElixir == ParseFunctions \/ ParseClasses \/ ReturnRecord

SpecElixir == InitElixir /\ [][NextElixir]_vars

\* The definitions of the file that define a function, and those that define
\* a module or a protocol.
FunctionDefs(F) == {i \in 1..F.n : F.form[i] \in FunctionForms}
ContainerDefs(F) == {i \in 1..F.n : F.form[i] \in ContainerForms}

\* The definition whose header is on a line.
DefAtLine(F, line) == CHOOSE i \in 1..F.n : OpenLine(F, i) = line

FunctionsDone == exPc \in {"functions", "parsed"}

\* C7: every function record has visibility "private" exactly when the keyword
\* of its own definition (the one whose header is on the record's line) is
\* defp, and "public" otherwise.
C7_VisibilityMatchesKeyword ==
    FunctionsDone =>
        \A k \in DOMAIN functions :
            LET own == DefAtLine(exFile, functions[k].line_number) IN
            /\ functions[k].visibility \in {"private", "public"}
            /\ functions[k].visibility = "private" <=> Keyword(exFile.form[own]) = "defp"

\* C8: the record of a function defined directly inside a defmodule or a
\* defprotocol has that container's name as context; the record of a function
\* with no enclosing container has context None.
C8_ContextIsEnclosingContainer ==
    FunctionsDone =>
        \A k \in DOMAIN functions :
            LET own == DefAtLine(exFile, functions[k].line_number)
                up == exFile.parent[own] IN
            /\ (up # 0 /\ exFile.form[up] \in ContainerForms)
                    => functions[k].context = DefName(exFile, up)
            /\ Ancestors(exFile, own) \cap ContainerDefs(exFile) = {}
                    => functions[k].context = None

\* No function definition lies inside another function definition.
NoFunctionNested(F) ==
    \A i \in FunctionDefs(F) : Ancestors(F, i) \cap FunctionDefs(F) = {}

\* C9: for a file with N function definitions, none nested in another,
\* _find_functions returns N records, one per definition, each with the name
\* and the 1-based inclusive line span of its own definition node.
C9_OneRecordPerFunction ==
    (FunctionsDone /\ NoFunctionNested(exFile)) =>
        /\ Len(functions) = Cardinality(FunctionDefs(exFile))
        /\ \A i \in FunctionDefs(exFile) :
              \E k \in DOMAIN functions :
                  /\ functions[k].name = DefName(exFile, i)
                  /\ functions[k].line_number = OpenLine(exFile, i)
                  /\ functions[k].end_line = CloseLine(exFile, i)

\* C10: _find_classes returns one record per defmodule/defprotocol node, with
\* the name and the line span of that node, and no two records share
\* (name, line_number).
C10_OneRecordPerContainer ==
    exPc = "parsed" =>
        /\ Len(classes) = Cardinality(ContainerDefs(exFile))
        /\ \A i \in ContainerDefs(exFile) :
              \E k \in DOMAIN classes :
                  /\ classes[k].name = DefName(exFile, i)
                  /\ classes[k].line_number = OpenLine(exFile, i)
                  /\ classes[k].end_line = CloseLine(exFile, i)
        /\ \A j, k \in DOMAIN classes :
              (classes[j].name = classes[k].name
                /\ classes[j].line_number = classes[k].line_number) => j = k

-----------------------------------------------------------------------------
(***************************************************************************)
(* ScipIndexer.  Symbols, names and paths are Python str values: sequences *)
(* of one-character strings.  An absent property (Cypher null, Python      *)
(* None) is the empty text, an absent line number is 0.                    *)
(***************************************************************************)

\* SCIP kind enum values
Class == 7
Method == 26
Function == 17
Variable == 61
Interface == 21
Constructor == 9
Struct == 49
Enum == 11
Package == 43
Module == 38
Namespace == 31

NoText == <<>>
NoLine == 0

\* KIND_TO_LABEL.get(kind): the label, or NoText for a kind not in the table
KindToLabel(kind) ==
    IF kind = 0 THEN "Symbol"
    ELSE IF kind = Class THEN "Class"
    ELSE IF kind \in {Method, Function, Constructor} THEN "Function"
    ELSE IF kind = Variable THEN "Variable"
    ELSE IF kind = Interface THEN "Interface"
    ELSE IF kind = Struct THEN "Struct"
    ELSE IF kind = Enum THEN "Enum"
    ELSE IF kind \in {Package, Module, Namespace} THEN "Module"
    ELSE "None"

\* str.startswith / str.endswith / `sub in s`
StartsWith(s, p) == Len(s) >= Len(p) /\ SubSeq(s, 1, Len(p)) = p
EndsWith(s, p) == Len(s) >= Len(p) /\ SubSeq(s, Len(s) - Len(p) + 1, Len(s)) = p
HasSubstring(s, sub) ==
    \E k \in 1..(Len(s) - Len(sub) + 1) : SubSeq(s, k, k + Len(sub) - 1) = sub

LocalPrefix == <<"l", "o", "c", "a", "l">>

\* symbol.startswith("local")
IsLocal(symbol) == StartsWith(symbol, LocalPrefix)

\* The label the trailing sigil of a symbol gives, and nothing else.
InferLabelFromSigil(symbol) ==
    IF EndsWith(symbol, <<")", ".">>) \/ EndsWith(symbol, <<"(", ")">>) THEN "Function"
    ELSE IF EndsWith(symbol, <<"#">>) THEN "Class"
    ELSE IF EndsWith(symbol, <<"/">>) THEN "Module"
    ELSE "Symbol"

\* ScipIndexer._infer_label_from_symbol
InferLabelFromSymbol(symbol) ==
    IF EndsWith(symbol, <<")", ".">>) \/ EndsWith(symbol, <<"(", ")">>) THEN "Function"
    ELSE IF EndsWith(symbol, <<"#">>) THEN "Class"
    ELSE IF EndsWith(symbol, <<"/">>) THEN "Module"
    ELSE IF HasSubstring(symbol, <<"p", "a", "c", "k", "a", "g", "e">>)
            /\ HasSubstring(symbol, <<"m", "o", "d", "u", "l", "e">>) THEN "Module"
    ELSE "Symbol"

\* str.replace(old, new) for a one-character old
RECURSIVE ReplaceChar(_, _, _)
ReplaceChar(s, old, new) ==
    IF s = <<>> THEN <<>>
    ELSE <<IF Head(s) = old THEN new ELSE Head(s)>> \o ReplaceChar(Tail(s), old, new)

\* str.replace("()", "")
RECURSIVE RemoveCallParens(_)
RemoveCallParens(s) ==
    IF Len(s) < 2 THEN s
    ELSE IF s[1] = "(" /\ s[2] = ")" THEN RemoveCallParens(SubSeq(s, 3, Len(s)))
    ELSE <<Head(s)>> \o RemoveCallParens(Tail(s))

\* [p for p in s.split(sep) if p], the part under construction in `part`
RECURSIVE SplitNonEmpty(_, _, _)
SplitNonEmpty(s, sep, part) ==
    IF s = <<>> THEN AppendIfNonEmpty(<<>>, part)
    ELSE IF Head(s) = sep
         THEN AppendIfNonEmpty(<<>>, part) \o SplitNonEmpty(Tail(s), sep, <<>>)
         ELSE SplitNonEmpty(Tail(s), sep, Append(part, Head(s)))

\* A SymbolInformation, or the absence of one.
NoInfo == [kind |-> 0, display_name |-> NoText]

\* ScipIndexer._extract_name
ExtractName(symbol, sym_info) ==
    IF sym_info.display_name # NoText THEN sym_info.display_name
    ELSE LET clean == RemoveCallParens(ReplaceChar(ReplaceChar(symbol, ".", "/"), "#", "/"))
             parts == SplitNonEmpty(clean, "/", <<>>) IN
         IF parts # <<>> THEN parts[Len(parts)] ELSE symbol

\* The label of a definition node (lines 277-293) and of a reference target
\* (lines 415-423): the table entry, a "Symbol" or missing entry replaced by
\* the label inferred from the symbol when that is not "Symbol".
LabelOf(symbol, sym_info) ==
    LET label == KindToLabel(sym_info.kind)
        inferred == InferLabelFromSymbol(symbol) IN
    IF label \in {"None", "Symbol"}
    THEN IF inferred # "Symbol" THEN inferred ELSE "Symbol"
    ELSE label

\* target_label = KIND_TO_LABEL.get(target_kind, "Symbol"), no inference.
TargetLabelFromKind(symbol, sym_info) ==
    IF KindToLabel(sym_info.kind) = "None" THEN "Symbol" ELSE KindToLabel(sym_info.kind)

\* The label of a reference target (lines 415-423).
TargetLabel(symbol, sym_info) ==
    LET target_label == IF KindToLabel(sym_info.kind) = "None" THEN "Symbol"
                        ELSE KindToLabel(sym_info.kind)
        inferred == InferLabelFromSymbol(symbol) IN
    IF target_label = "Symbol" /\ inferred # "Symbol" THEN inferred ELSE target_label

-----------------------------------------------------------------------------
(***************************************************************************)
(* Paths.                                                                  *)
(***************************************************************************)

\* str(repo_path.resolve())
RepoPath == <<"/", "r">>

\* Path(relative_path).parts
PathParts(rel) == SplitNonEmpty(rel, "/", <<>>)

\* os.path.join(parent, part)
PathJoin(parent, part) == parent \o <<"/">> \o part

\* Path.resolve() on the parts of a path: a ".." part takes the last part away.
RECURSIVE ResolveParts(_, _)
ResolveParts(parts, done) ==
    IF parts = <<>> THEN done
    ELSE IF Head(parts) = <<".", ".">>
         THEN ResolveParts(Tail(parts),
                           IF done = <<>> THEN done ELSE SubSeq(done, 1, Len(done) - 1))
         ELSE ResolveParts(Tail(parts), Append(done, Head(parts)))

RECURSIVE JoinParts(_)
JoinParts(parts) ==
    IF parts = <<>> THEN <<>> ELSE <<"/">> \o Head(parts) \o JoinParts(Tail(parts))

\* str((repo_path / doc.relative_path).resolve())
FilePathStr(rel) == JoinParts(ResolveParts(PathParts(RepoPath) \o PathParts(rel), <<>>))

\* os.path.basename(file_path_str)
BaseName(path) ==
    LET parts == PathParts(path) IN IF parts = <<>> THEN <<>> ELSE parts[Len(parts)]

\* doc.relative_path.startswith("..")
OutsideRepo(rel) == StartsWith(rel, <<".", ".">>)

-----------------------------------------------------------------------------
(***************************************************************************)
(* The graph store.  A node is identified by its label and the property its*)
(* MERGE is keyed by (scip_symbol for a symbol node, path for a File,      *)
(* Directory or Repository node); `nodes` maps the identity <<label, key>> *)
(* to the node's properties.  `edges` maps <<source, type, target>> to the *)
(* number of relationships of that type between the two nodes, `verified`  *)
(* holds the CALLS edges whose scip_verified is true.                      *)
(***************************************************************************)

NoProps ==
    [path |-> NoText, name |-> NoText, line_number |-> NoLine,
     scip_symbol |-> NoText, relative_path |-> NoText]

EmptyGraph == [nodes |-> <<>>, edges |-> <<>>, verified |-> {}]

\* MERGE of a node: the node as it is when it exists, else a new one.
MergeNode(nodes, id, props) ==
    IF id \in DOMAIN nodes THEN nodes ELSE nodes @@ (id :> props)

\* CREATE (a)-[:TYPE]->(b): one more relationship every time.
CreateEdge(edges, e) ==
    IF e \in DOMAIN edges THEN [edges EXCEPT ![e] = @ + 1] ELSE edges @@ (e :> 1)

\* MERGE (a)-[:TYPE]->(b): one relationship when there is none.
MergeEdge(edges, e) ==
    IF e \in DOMAIN edges THEN edges ELSE edges @@ (e :> 1)

\* MERGE (f:File {path: $path}) SET f.relative_path = $rel_path, f.name = $name
MergeFileNode(g, path, rel_path, name) ==
    LET id == <<"File", path>>
        merged == MergeNode(g.nodes, id, [NoProps EXCEPT !.path = path]) IN
    [g EXCEPT !.nodes =
        [merged EXCEPT ![id] = [@ EXCEPT !.relative_path = rel_path, !.name = name]]]

\* MATCH (p:{parent_label} {path: $parent_path})
\* MERGE (d:Directory {path: $current_path}) SET d.name = $part
\* MERGE (p)-[:CONTAINS]->(d)
MergeDirectory(g, parent_label, parent_path, current_path, part) ==
    LET p == <<parent_label, parent_path>>
        d == <<"Directory", current_path>> IN
    IF p \notin DOMAIN g.nodes THEN g
    ELSE LET merged == MergeNode(g.nodes, d, [NoProps EXCEPT !.path = current_path]) IN
         [g EXCEPT !.nodes = [merged EXCEPT ![d] = [@ EXCEPT !.name = part]],
                   !.edges = MergeEdge(g.edges, <<p, "CONTAINS", d>>)]

\* MATCH (p:{parent_label} {path: $parent_path}) MATCH (f:File {path: $file_path})
\* MERGE (p)-[:CONTAINS]->(f)
LinkFileToParent(g, parent_label, parent_path, file_path) ==
    LET p == <<parent_label, parent_path>>
        f == <<"File", file_path>> IN
    IF p \notin DOMAIN g.nodes \/ f \notin DOMAIN g.nodes THEN g
    ELSE [g EXCEPT !.edges = MergeEdge(g.edges, <<p, "CONTAINS", f>>)]

\* MATCH (f:File {path: $path}) MERGE (n:{label} {scip_symbol: $symbol})
\* SET n.name = $name, n.path = $path, n.line_number = $line_number
\* MERGE (f)-[:CONTAINS]->(n)
MergeDefinition(g, path, label, symbol, name, line_number) ==
    LET f == <<"File", path>>
        n == <<label, symbol>> IN
    IF f \notin DOMAIN g.nodes THEN g
    ELSE LET merged == MergeNode(g.nodes, n, [NoProps EXCEPT !.scip_symbol = symbol]) IN
         [g EXCEPT !.nodes = [merged EXCEPT ![n] =
                                [@ EXCEPT !.name = name, !.path = path,
                                          !.line_number = line_number]],
                   !.edges = MergeEdge(g.edges, <<f, "CONTAINS", n>>)]

CallerLabels == {"Function", "Method"}

\* MATCH (caller {path: $path, name: $caller_name}) WHERE caller:Function OR caller:Method
CallersByName(g, path, caller_name) ==
    {id \in DOMAIN g.nodes :
        /\ id[1] \in CallerLabels
        /\ g.nodes[id].path = path
        /\ g.nodes[id].name = caller_name}

\* MATCH (caller {path: $path, line_number: $line_number}) WHERE caller:Function OR caller:Method
CallersByLine(g, path, line_number) ==
    {id \in DOMAIN g.nodes :
        /\ id[1] \in CallerLabels
        /\ g.nodes[id].path = path
        /\ g.nodes[id].line_number = line_number}

\* MERGE (caller)-[r:CALLS]->(target), for every caller row
RECURSIVE MergeCallEdges(_, _, _)
MergeCallEdges(edges, callers, target) ==
    IF callers = {} THEN edges
    ELSE LET c == CHOOSE x \in callers : TRUE IN
         MergeCallEdges(MergeEdge(edges, <<c, "CALLS", target>>), callers \ {c}, target)

\* A count that reports no relationship, whatever was matched.
CreatedNone(callers) == 0

\* RETURN count(r) as created: one row for each matched caller
Created(callers) == Cardinality(callers)

\* MERGE of the target node whether or not a caller was matched.
LinkCallsTargetFirst(g, callers, target_label, target_symbol, target_name) ==
    LET t == <<target_label, target_symbol>> IN
    [g EXCEPT
        !.nodes = MergeNode(g.nodes, t,
                    [NoProps EXCEPT !.scip_symbol = target_symbol, !.name = target_name]),
        !.edges = MergeCallEdges(g.edges, callers, t),
        !.verified = @ \cup {<<c, "CALLS", t>> : c \in callers}]

\* For the matched callers:
\* MERGE (target:{target_label} {scip_symbol: $target_symbol})
\* ON CREATE SET target.name = $target_name
\* MERGE (caller)-[r:CALLS]->(target) SET r.scip_verified = true
LinkCalls(g, callers, target_label, target_symbol, target_name) ==
    LET t == <<target_label, target_symbol>> IN
    IF callers = {} THEN g
    ELSE [g EXCEPT
            !.nodes = MergeNode(g.nodes, t,
                        [NoProps EXCEPT !.scip_symbol = target_symbol, !.name = target_name]),
            !.edges = MergeCallEdges(g.edges, callers, t),
            !.verified = @ \cup {<<c, "CALLS", t>> : c \in callers}]

\* MATCH (n) WHERE n.scip_symbol = 'local' DETACH DELETE n
DeleteNodesNamedLocal(g) ==
    LET gone == {id \in DOMAIN g.nodes : g.nodes[id].scip_symbol = LocalPrefix}
        kept == {e \in DOMAIN g.edges : e[1] \notin gone /\ e[3] \notin gone} IN
    [nodes |-> [id \in DOMAIN g.nodes \ gone |-> g.nodes[id]],
     edges |-> [e \in kept |-> g.edges[e]],
     verified |-> g.verified \cap kept]

\* MATCH (n) WHERE n.scip_symbol STARTS WITH 'local' DETACH DELETE n
DeleteLocalNodes(g) ==
    LET gone == {id \in DOMAIN g.nodes : StartsWith(g.nodes[id].scip_symbol, LocalPrefix)}
        kept == {e \in DOMAIN g.edges : e[1] \notin gone /\ e[3] \notin gone} IN
    [nodes |-> [id \in DOMAIN g.nodes \ gone |-> g.nodes[id]],
     edges |-> [e \in kept |-> g.edges[e]],
     verified |-> g.verified \cap kept]

-----------------------------------------------------------------------------
(***************************************************************************)
(* The caller of a reference: the reference loop of _process_document.     *)
(* A structural function is a record with name, line_number and end_line.  *)
(***************************************************************************)

NoFunc == [name |-> NoText, line_number |-> NoLine, end_line |-> NoLine]

\* ref_line = ref.range[0] + 1
RefLine(occ) == occ.range[1] + 1

\* f['line_number'] <= ref_line <= f['end_line']
ContainsLine(f, ref_line) == f.line_number <= ref_line /\ ref_line <= f.end_line

\* Every function of the file, containing the line or not.
EveryFunc(funcs, ref_line) == funcs

\* containing_funcs = [f for f in functions if ...]
ContainingFuncs(funcs, ref_line) ==
    SelectSeq(funcs, LAMBDA f : ContainsLine(f, ref_line))

\* key=lambda f: f['end_line'] - f['line_number']
SpanOf(f) == f.end_line - f.line_number

\* list.sort is stable: f goes behind every element whose key is not larger.
RECURSIVE InsertBySpan(_, _)
InsertBySpan(sorted, f) ==
    IF sorted = <<>> THEN <<f>>
    ELSE IF SpanOf(Head(sorted)) <= SpanOf(f)
         THEN <<Head(sorted)>> \o InsertBySpan(Tail(sorted), f)
         ELSE <<f>> \o sorted

RECURSIVE SortBySpan(_)
SortBySpan(fs) ==
    IF fs = <<>> THEN <<>>
    ELSE InsertBySpan(SortBySpan(SubSeq(fs, 1, Len(fs) - 1)), fs[Len(fs)])

\* The first function listed that contains the line.
FirstListedContaining(funcs, ref_line) == Head(ContainingFuncs(funcs, ref_line))

\* containing_funcs.sort(key=...); caller = containing_funcs[0]
ChooseCaller(funcs, ref_line) == Head(SortBySpan(ContainingFuncs(funcs, ref_line)))

\* One iteration of `for ref in references`, up to the choice of the caller.
ResolveReference(funcs, ref) ==
    IF IsLocal(ref.symbol) THEN [outcome |-> "local", caller |-> NoFunc]
    ELSE IF ContainingFuncs(funcs, RefLine(ref)) = <<>>
         THEN [outcome |-> "unscoped", caller |-> NoFunc]
         ELSE [outcome |-> "caller", caller |-> ChooseCaller(funcs, RefLine(ref))]

\* Symbols of the enumerated indexes.
SymF == <<"p", "/", "f", "(", ")", ".">>
SymG == <<"p", "/", "g", "(", ")", ".">>
SymC == <<"p", "/", "C", "#">>
SymL == <<"l", "o", "c", "a", "l", " ", "1">>

\* Longest functions list the caller specification enumerates.
MaxFuncs == 3

SpanPool == {<<1, 20>>, <<5, 10>>, <<6, 11>>, <<7, 7>>, <<8, 12>>, <<12, 20>>}
FuncNames == {<<"f">>, <<"g">>}
FuncPool ==
    {[name |-> n, line_number |-> s[1], end_line |-> s[2]] : n \in FuncNames, s \in SpanPool}
FuncLists == UNION {[1..n -> FuncPool] : n \in 0..MaxFuncs}
RefPool ==
    {[range |-> <<l, 0>>, symbol |-> s, symbol_roles |-> 0] :
        l \in {3, 6, 10, 20}, s \in {SymG, SymL}}

InitCaller ==
    /\ DownloadIdle
    /\ RegistryIdle
    /\ FindCallsIdle
    /\ ComplexityIdle
    /\ ArgsIdle
    /\ ExIdle
    /\ IngestIdle
    /\ PreScanIdle
    /\ ConcurrentIdle
    /\ LabelIdle
    /\ scopeFuncs \in FuncLists
    /\ scopeRef \in RefPool
    /\ scopeCaller = [outcome |-> "pending", caller |-> NoFunc]
    /\ scopePc = "input"

\* the body of `for ref in references` for scopeRef
ResolveCaller ==
    /\ scopePc = "input"
    /\ scopeCaller' = ResolveReference(scopeFuncs, scopeRef)
    /\ scopePc' = "resolved"
    /\ UNCHANGED <<scopeFuncs, scopeRef, argsVars, exVars, ingVars, psVars, coVars, lbVars, cxVars, fcVars, brVars, dlVars>>

NextCaller == ResolveCaller

SpecCaller == InitCaller /\ [][NextCaller]_vars

\* C3: for a non-local reference whose line lies inside the span of one or
\* more structural functions, the caller chosen is a containing function
\* whose span end_line - line_number is minimal; with containing spans
\* [1,20] and [5,10] and a reference at line 7 it is the one spanning [5,10].
C3_NarrowestContainingCaller ==
    (scopePc = "resolved" /\ ~StartsWith(scopeRef.symbol, LocalPrefix)) =>
        LET line == scopeRef.range[1] + 1
            containing == {f \in SeqToSet(scopeFuncs) :
                              f.line_number <= line /\ line <= f.end_line}
            chosen == scopeCaller.caller IN
        containing # {} =>
            /\ scopeCaller.outcome = "caller"
            /\ chosen \in containing
            /\ \A f \in containing :
                  chosen.end_line - chosen.line_number <= f.end_line - f.line_number
            /\ (line = 7 /\ {<<f.line_number, f.end_line>> : f \in containing}
                                = {<<1, 20>>, <<5, 10>>})
                  => <<chosen.line_number, chosen.end_line>> = <<5, 10>>

\* The reference at line 7 lies in [1,20], listed first, and in [5,10]; the
\* caller resolved is the second function.
C3_Witness ==
    /\ scopePc = "resolved"
    /\ Len(scopeFuncs) = 2
    /\ <<scopeFuncs[1].line_number, scopeFuncs[1].end_line>> = <<1, 20>>
    /\ <<scopeFuncs[2].line_number, scopeFuncs[2].end_line>> = <<5, 10>>
    /\ scopeRef.range[1] = 6
    /\ scopeRef.symbol = SymG
    /\ scopeCaller.outcome = "caller"
    /\ scopeCaller.caller = scopeFuncs[2]

-----------------------------------------------------------------------------
(***************************************************************************)
(* The SCIP index.  An occurrence is a record with range (start line and   *)
(* start character, 0-indexed), symbol and symbol_roles; a document has a  *)
(* relative_path, occurrences and symbols; the index has documents and     *)
(* external_symbols.                                                       *)
(***************************************************************************)

\* occ.symbol_roles & SymbolRole.Definition: Definition is the lowest bit.
IsDefinition(occ) == occ.symbol_roles % 2 = 1

\* key=lambda x: (x.range[0], x.range[1])
RangeNotAfter(a, b) ==
    \/ a.range[1] < b.range[1]
    \/ a.range[1] = b.range[1] /\ a.range[2] <= b.range[2]

RECURSIVE InsertByRange(_, _)
InsertByRange(sorted, occ) ==
    IF sorted = <<>> THEN <<occ>>
    ELSE IF RangeNotAfter(Head(sorted), occ)
         THEN <<Head(sorted)>> \o InsertByRange(Tail(sorted), occ)
         ELSE <<occ>> \o sorted

RECURSIVE SortByRange(_)
SortByRange(occs) ==
    IF occs = <<>> THEN <<>>
    ELSE InsertByRange(SortByRange(SubSeq(occs, 1, Len(occs) - 1)), occs[Len(occs)])

\* definitions, after definitions.sort(...)
Definitions(doc) == SortByRange(SelectSeq(doc.occurrences, IsDefinition))

\* references
References(doc) == SelectSeq(doc.occurrences, LAMBDA occ : ~IsDefinition(occ))

RECURSIVE DocumentSymbols(_)
DocumentSymbols(docs) ==
    IF docs = <<>> THEN <<>> ELSE Head(docs).symbols \o DocumentSymbols(Tail(docs))

\* symbol_info_map: external_symbols first, then every document's symbols;
\* a later entry for a symbol replaces an earlier one.
SymbolInfoMap(idx) ==
    LET infos == idx.external_symbols \o DocumentSymbols(idx.documents)
        last(s) == CHOOSE i \in DOMAIN infos :
                      /\ infos[i].symbol = s
                      /\ \A j \in DOMAIN infos : j > i => infos[j].symbol # s IN
    [s \in {infos[i].symbol : i \in DOMAIN infos} |-> infos[last(s)]]

\* symbol_map.get(symbol)
SymInfo(symbol_map, symbol) ==
    IF symbol \in DOMAIN symbol_map
    THEN [kind |-> symbol_map[symbol].kind, display_name |-> symbol_map[symbol].display_name]
    ELSE NoInfo

\* relative_parts, the file name included
AllParts(rel) == PathParts(rel)

\* relative_parts[:-1]
DirParts(rel) == LET parts == PathParts(rel) IN SubSeq(parts, 1, Len(parts) - 1)

\* The absolute path of the k-th directory of rel; the repository for k = 0.
RECURSIVE DirPath(_, _)
DirPath(rel, k) ==
    IF k = 0 THEN RepoPath ELSE PathJoin(DirPath(rel, k - 1), DirParts(rel)[k])

\* parent_label before the k-th pass of the directory loop
ParentLabel(k) == IF k = 1 THEN "Repository" ELSE "Directory"

\* ---- the indexes enumerated

InfoF == [symbol |-> SymF, kind |-> Function, display_name |-> <<"f">>]
InfoG == [symbol |-> SymG, kind |-> Method, display_name |-> NoText]

Occ(line, col, symbol, roles) ==
    [range |-> <<line, col>>, symbol |-> symbol, symbol_roles |-> roles]

OccLists ==
    { <<Occ(1, 4, SymG, 0), Occ(1, 0, SymL, 1), Occ(0, 4, SymF, 1), Occ(1, 2, SymL, 8)>>,
      <<Occ(1, 4, SymG, 1), Occ(2, 0, SymF, 0)>>,
      <<Occ(1, 0, SymG, 0), Occ(1, 8, SymC, 0)>>,
      <<Occ(1, 6, SymC, 1), Occ(0, 4, SymF, 1)>> }

DocSymbols(occs) ==
    IF \E i \in DOMAIN occs : occs[i].symbol = SymF /\ IsDefinition(occs[i])
    THEN <<InfoF>> ELSE <<>>

PathM == <<"m">>
PathAN == <<"a", "/", "n">>
PathOutside == <<".", ".", "/", "x">>
\* a file in the repository root whose name begins with two dots
PathDotted == <<".", ".", "a">>
RelPaths == {PathM, PathAN, PathOutside, PathDotted}

\* A document the prefix test skips is never read: one occurrence list will do.
DocPool ==
    UNION {{[relative_path |-> p, occurrences |-> o, symbols |-> DocSymbols(o)] :
               o \in IF OutsideRepo(p)
                     THEN {<<Occ(1, 4, SymG, 1), Occ(2, 0, SymF, 0)>>}
                     ELSE OccLists} :
           p \in RelPaths}

\* Most documents in an index.
MaxDocs == 2

\* Document.relative_path is unique within an index.
Indexes ==
    {[documents |-> ds, external_symbols |-> <<InfoG>>] :
        ds \in {d \in UNION {[1..n -> DocPool] : n \in 0..MaxDocs} :
                  \A i, j \in DOMAIN d : i # j => d[i].relative_path # d[j].relative_path}}

\* What file_path.exists() and ts_parser.parse(file_path) give for a file.
TsFunc(name, first, last) == [name |-> name, line_number |-> first, end_line |-> last]

TsResults ==
    { [exists |-> FALSE, functions |-> <<>>],
      [exists |-> TRUE, functions |-> <<>>],
      [exists |-> TRUE, functions |-> <<TsFunc(<<"f">>, 1, 2)>>],
      [exists |-> TRUE, functions |-> <<TsFunc(<<"f">>, 1, 4), TsFunc(<<"g">>, 2, 3)>>],
      [exists |-> TRUE, functions |-> <<TsFunc(<<"f">>, 1, 2), TsFunc(<<"f">>, 3, 4)>>] }

InsidePaths(idx) ==
    {p \in {idx.documents[i].relative_path : i \in DOMAIN idx.documents} : ~OutsideRepo(p)}

\* ---- the graphs ingest_index is started on

RepositoryId == <<"Repository", RepoPath>>

\* The repository node alone.
GraphRepo ==
    [EmptyGraph EXCEPT !.nodes =
        (RepositoryId :> [NoProps EXCEPT !.path = RepoPath, !.name = <<"r">>])]

StructuralId(name) == <<"Function", FilePathStr(PathM) \o <<":">> \o name>>
StaleLocalId == <<"Symbol", SymL>>

\* The repository with the file m as the structural pass left it (functions
\* f and g), and a local symbol with a call to it left by an earlier ingest.
GraphBuilt ==
    LET file == <<"File", FilePathStr(PathM)>>
        fn(name, line) == [NoProps EXCEPT !.path = FilePathStr(PathM),
                                          !.name = name, !.line_number = line] IN
    [nodes |-> (RepositoryId :> [NoProps EXCEPT !.path = RepoPath, !.name = <<"r">>])
            @@ (file :> [NoProps EXCEPT !.path = FilePathStr(PathM), !.name = PathM,
                                        !.relative_path = PathM])
            @@ (StructuralId(<<"f">>) :> fn(<<"f">>, 1))
            @@ (StructuralId(<<"g">>) :> fn(<<"g">>, 2))
            @@ (StaleLocalId :> [NoProps EXCEPT !.scip_symbol = SymL, !.name = SymL,
                                                !.path = FilePathStr(PathM),
                                                !.line_number = 2]),
     edges |-> (<<RepositoryId, "CONTAINS", file>> :> 1)
            @@ (<<file, "CONTAINS", StructuralId(<<"f">>)>> :> 1)
            @@ (<<file, "CONTAINS", StructuralId(<<"g">>)>> :> 1)
            @@ (<<file, "CONTAINS", StaleLocalId>> :> 1)
            @@ (<<StructuralId(<<"f">>), "CALLS", StaleLocalId>> :> 1),
     verified |-> {<<StructuralId(<<"f">>), "CALLS", StaleLocalId>>}]

\* The second of two functions named f of the file m (methods of two classes).
SecondStructuralId == <<"Function", FilePathStr(PathM) \o <<":", "f", ":", "3">>>>

\* The repository with the file m as the structural pass left it when m
\* holds two functions named f, at lines 1 and 3.
GraphSameName ==
    LET file == <<"File", FilePathStr(PathM)>>
        fn(name, line) == [NoProps EXCEPT !.path = FilePathStr(PathM),
                                          !.name = name, !.line_number = line] IN
    [nodes |-> (RepositoryId :> [NoProps EXCEPT !.path = RepoPath, !.name = <<"r">>])
            @@ (file :> [NoProps EXCEPT !.path = FilePathStr(PathM), !.name = PathM,
                                        !.relative_path = PathM])
            @@ (StructuralId(<<"f">>) :> fn(<<"f">>, 1))
            @@ (SecondStructuralId :> fn(<<"f">>, 3)),
     edges |-> (<<RepositoryId, "CONTAINS", file>> :> 1)
            @@ (<<file, "CONTAINS", StructuralId(<<"f">>)>> :> 1)
            @@ (<<file, "CONTAINS", SecondStructuralId>> :> 1),
     verified |-> {}]

InitialGraphs == {GraphRepo, GraphBuilt, GraphSameName}

-----------------------------------------------------------------------------
(***************************************************************************)
(* ingest_index, one graph query or one skipped loop pass per step.        *)
(*   pc = "ready"        ingest_index is called                             *)
(*        "doc"          at the head of `for i, doc in enumerate(...)`      *)
(*        "hierarchy"    in one of the two hierarchy blocks                 *)
(*        "definitions"  in `for occ in definitions`, then the parse        *)
(*        "references"   in `for ref in references`                         *)
(*        "fallback"     the primary match of the reference found no caller *)
(*        "done"         ingest_index returned                              *)
(*        "aborted"      ingest_index raised                                *)
(***************************************************************************)

\* A with block that does not release its session.
KeepSession(s) == s

\* with driver.session() as session: entering and leaving the block
EnterSession(s) == [opened |-> s.opened + 1, open |-> s.open + 1]
ExitSession(s) == [s EXCEPT !.open = @ - 1]

\* Calls of ingest_index in a row.
MaxRuns == 2

CurDoc == index.documents[docIdx]
FilePath == FilePathStr(CurDoc.relative_path)
CurTs == tsFiles[CurDoc.relative_path]
CurRef == References(CurDoc)[step]
CurDef == Definitions(CurDoc)[step]

\* Where the reference loop stands after the pass for CurRef.
AfterRef ==
    IF step < Len(References(CurDoc))
    THEN [pc |-> "references", docIdx |-> docIdx, step |-> step + 1]
    ELSE [pc |-> "doc", docIdx |-> docIdx + 1, step |-> 1]

\* Where _process_document stands after a hierarchy block.
AfterBlock ==
    IF block = 1 THEN [pc |-> "hierarchy", block |-> 2]
    ELSE [pc |-> "definitions", block |-> 1]

InitIngest ==
    /\ DownloadIdle
    /\ RegistryIdle
    /\ FindCallsIdle
    /\ ComplexityIdle
    /\ ArgsIdle
    /\ ExIdle
    /\ ScopeIdle
    /\ PreScanIdle
    /\ ConcurrentIdle
    /\ LabelIdle
    /\ index \in Indexes
    /\ tsFiles \in [InsidePaths(index) -> TsResults]
    /\ graph \in InitialGraphs
    /\ before = graph
    /\ pc = "ready"
    /\ run = 1
    /\ docIdx = 1
    /\ block = 1
    /\ step = 1
    /\ raised = {}
    /\ session = [opened |-> 0, open |-> 0]

\* with driver.session() as session
OpenSession ==
    /\ pc = "ready"
    /\ pc' = "doc"
    /\ session' = EnterSession(session)
    /\ UNCHANGED <<index, tsFiles, graph, before, run, docIdx, block, step, raised>>
    /\ UNCHANGED <<argsVars, exVars, scopeVars, psVars, coVars, lbVars, cxVars, fcVars, brVars, dlVars>>

\* if doc.relative_path.startswith(".."): return
SkipOutsideDocument ==
    /\ pc = "doc"
    /\ docIdx <= Len(index.documents)
    /\ OutsideRepo(CurDoc.relative_path)
    /\ docIdx' = docIdx + 1
    /\ UNCHANGED <<session, index, tsFiles, graph, before, pc, run, block, step, raised>>
    /\ UNCHANGED <<argsVars, exVars, scopeVars, psVars, coVars, lbVars, cxVars, fcVars, brVars, dlVars>>

\* 1. Create File Node
CreateFileNode ==
    /\ pc = "doc"
    /\ docIdx <= Len(index.documents)
    /\ ~OutsideRepo(CurDoc.relative_path)
    /\ graph' = MergeFileNode(graph, FilePath, CurDoc.relative_path, BaseName(FilePath))
    /\ pc' = "hierarchy"
    /\ UNCHANGED <<session, index, tsFiles, before, run, docIdx, block, step, raised>>
    /\ UNCHANGED <<argsVars, exVars, scopeVars, psVars, coVars, lbVars, cxVars, fcVars, brVars, dlVars>>

\* for part in relative_parts[:-1]: the directory query
LinkDirectory ==
    /\ pc = "hierarchy"
    /\ step <= Len(DirParts(CurDoc.relative_path))
    /\ graph' = MergeDirectory(graph, ParentLabel(step),
                               DirPath(CurDoc.relative_path, step - 1),
                               DirPath(CurDoc.relative_path, step),
                               DirParts(CurDoc.relative_path)[step])
    /\ step' = step + 1
    /\ UNCHANGED <<session, index, tsFiles, before, pc, run, docIdx, block, raised>>
    /\ UNCHANGED <<argsVars, exVars, scopeVars, psVars, coVars, lbVars, cxVars, fcVars, brVars, dlVars>>

\* Finally, link the immediate parent (Repo or Directory) to the File
LinkFile ==
    /\ pc = "hierarchy"
    /\ step > Len(DirParts(CurDoc.relative_path))
    /\ graph' = LinkFileToParent(graph, ParentLabel(step),
                                 DirPath(CurDoc.relative_path, step - 1), FilePath)
    /\ pc' = AfterBlock.pc
    /\ block' = AfterBlock.block
    /\ step' = 1
    /\ UNCHANGED <<session, index, tsFiles, before, run, docIdx, raised>>
    /\ UNCHANGED <<argsVars, exVars, scopeVars, psVars, coVars, lbVars, cxVars, fcVars, brVars, dlVars>>

\* if occ.symbol.startswith("local"): continue
SkipLocalDefinition ==
    /\ pc = "definitions"
    /\ step <= Len(Definitions(CurDoc))
    /\ IsLocal(CurDef.symbol)
    /\ step' = step + 1
    /\ UNCHANGED <<session, index, tsFiles, graph, before, pc, run, docIdx, block, raised>>
    /\ UNCHANGED <<argsVars, exVars, scopeVars, psVars, coVars, lbVars, cxVars, fcVars, brVars, dlVars>>

\* Create Node
CreateDefinitionNode ==
    /\ pc = "definitions"
    /\ step <= Len(Definitions(CurDoc))
    /\ ~IsLocal(CurDef.symbol)
    /\ LET sym_info == SymInfo(SymbolInfoMap(index), CurDef.symbol) IN
       graph' = MergeDefinition(graph, FilePath, LabelOf(CurDef.symbol, sym_info),
                                CurDef.symbol, ExtractName(CurDef.symbol, sym_info),
                                CurDef.range[1] + 1)
    /\ step' = step + 1
    /\ UNCHANGED <<session, index, tsFiles, before, pc, run, docIdx, block, raised>>
    /\ UNCHANGED <<argsVars, exVars, scopeVars, psVars, coVars, lbVars, cxVars, fcVars, brVars, dlVars>>

\* A _process_document that links the directory hierarchy after the
\* definition nodes.
LinkHierarchyAfterDefinitions ==
    /\ pc = "definitions"
    /\ step > Len(Definitions(CurDoc))
    /\ pc' = "hierarchy"
    /\ step' = 1
    /\ UNCHANGED <<session, index, tsFiles, graph, before, run, docIdx, block, raised>>
    /\ UNCHANGED <<argsVars, exVars, scopeVars, psVars, coVars, lbVars, cxVars, fcVars, brVars, dlVars>>

\* ts_parser = TreeSitterParser('python') ... if not references: return
ParseFunctionScopes ==
    /\ pc = "definitions"
    /\ step > Len(Definitions(CurDoc))
    /\ IF ~CurTs.exists \/ CurTs.functions = <<>> \/ References(CurDoc) = <<>>
       THEN pc' = "doc" /\ docIdx' = docIdx + 1
       ELSE pc' = "references" /\ docIdx' = docIdx
    /\ step' = 1
    /\ UNCHANGED <<session, index, tsFiles, graph, before, run, block, raised>>
    /\ UNCHANGED <<argsVars, exVars, scopeVars, psVars, coVars, lbVars, cxVars, fcVars, brVars, dlVars>>

\* if ref.symbol.startswith("local"): continue
SkipLocalReference ==
    /\ pc = "references"
    /\ ResolveReference(CurTs.functions, CurRef).outcome = "local"
    /\ pc' = AfterRef.pc
    /\ docIdx' = AfterRef.docIdx
    /\ step' = AfterRef.step
    /\ UNCHANGED <<session, index, tsFiles, graph, before, run, block, raised>>
    /\ UNCHANGED <<argsVars, exVars, scopeVars, psVars, coVars, lbVars, cxVars, fcVars, brVars, dlVars>>

\* if not containing_funcs: continue
SkipUnscopedReference ==
    /\ pc = "references"
    /\ ResolveReference(CurTs.functions, CurRef).outcome = "unscoped"
    /\ pc' = AfterRef.pc
    /\ docIdx' = AfterRef.docIdx
    /\ step' = AfterRef.step
    /\ UNCHANGED <<session, index, tsFiles, graph, before, run, block, raised>>
    /\ UNCHANGED <<argsVars, exVars, scopeVars, psVars, coVars, lbVars, cxVars, fcVars, brVars, dlVars>>

\* Primary Match: Path and Name
LinkCallByName ==
    /\ pc = "references"
    /\ ResolveReference(CurTs.functions, CurRef).outcome = "caller"
    /\ LET caller == ResolveReference(CurTs.functions, CurRef).caller
           target_info == SymInfo(SymbolInfoMap(index), CurRef.symbol)
           callers == CallersByName(graph, FilePath, caller.name)
           created == Created(callers) IN
       /\ graph' = LinkCalls(graph, callers, TargetLabel(CurRef.symbol, target_info),
                             CurRef.symbol, ExtractName(CurRef.symbol, target_info))
       /\ IF created = 0
          THEN pc' = "fallback" /\ docIdx' = docIdx /\ step' = step
          ELSE pc' = AfterRef.pc /\ docIdx' = AfterRef.docIdx /\ step' = AfterRef.step
    /\ UNCHANGED <<session, index, tsFiles, before, run, block, raised>>
    /\ UNCHANGED <<argsVars, exVars, scopeVars, psVars, coVars, lbVars, cxVars, fcVars, brVars, dlVars>>

\* Fallback: Match by Line Number
LinkCallByLine ==
    /\ pc = "fallback"
    /\ LET caller == ResolveReference(CurTs.functions, CurRef).caller
           target_info == SymInfo(SymbolInfoMap(index), CurRef.symbol)
           callers == CallersByLine(graph, FilePath, caller.line_number) IN
       graph' = LinkCalls(graph, callers, TargetLabel(CurRef.symbol, target_info),
                          CurRef.symbol, ExtractName(CurRef.symbol, target_info))
    /\ pc' = AfterRef.pc
    /\ docIdx' = AfterRef.docIdx
    /\ step' = AfterRef.step
    /\ UNCHANGED <<session, index, tsFiles, before, run, block, raised>>
    /\ UNCHANGED <<argsVars, exVars, scopeVars, psVars, coVars, lbVars, cxVars, fcVars, brVars, dlVars>>

\* The cleanup query issued between two documents.
CleanupBetweenDocuments ==
    /\ pc = "doc"
    /\ graph' = DeleteLocalNodes(graph)
    /\ pc' = "done"
    /\ session' = ExitSession(session)
    /\ UNCHANGED <<index, tsFiles, before, run, docIdx, block, step, raised>>
    /\ UNCHANGED <<argsVars, exVars, scopeVars, psVars, coVars, lbVars, cxVars, fcVars, brVars, dlVars>>

\* Cleanup any local symbols that might have slipped through
CleanupLocalSymbols ==
    /\ pc = "doc"
    /\ docIdx > Len(index.documents)
    /\ graph' = DeleteLocalNodes(graph)
    /\ pc' = "done"
    /\ session' = ExitSession(session)
    /\ UNCHANGED <<index, tsFiles, before, run, docIdx, block, step, raised>>
    /\ UNCHANGED <<argsVars, exVars, scopeVars, psVars, coVars, lbVars, cxVars, fcVars, brVars, dlVars>>

\* ingest_index is called again with the same index on the same graph
Rerun ==
    /\ pc = "done"
    /\ run < MaxRuns
    /\ run' = run + 1
    /\ before' = graph
    /\ pc' = "ready"
    /\ docIdx' = 1
    /\ session' = [opened |-> 0, open |-> 0]
    /\ UNCHANGED <<index, tsFiles, graph, block, step, raised>>
    /\ UNCHANGED <<argsVars, exVars, scopeVars, psVars, coVars, lbVars, cxVars, fcVars, brVars, dlVars>>

NextIngest ==
    \/ OpenSession
    \/ SkipOutsideDocument
    \/ CreateFileNode
    \/ LinkDirectory
    \/ LinkFile
    \/ SkipLocalDefinition
    \/ CreateDefinitionNode
    \/ ParseFunctionScopes
    \/ SkipLocalReference
    \/ SkipUnscopedReference
    \/ LinkCallByName
    \/ LinkCallByLine
    \/ CleanupLocalSymbols
    \/ Rerun

SpecIngest == InitIngest /\ [][NextIngest]_vars

\* C1: when ingest_index has completed, no node of the graph has a
\* scip_symbol that begins with 'local', and no CALLS edge has such a node (or
\* a deleted node) as an endpoint, whatever local definitions and references
\* the index holds and whatever local nodes the graph held before.
C1_NoLocalSymbolAfterIngest ==
    pc = "done" =>
        /\ \A id \in DOMAIN graph.nodes :
              ~StartsWith(graph.nodes[id].scip_symbol, LocalPrefix)
        /\ \A e \in DOMAIN graph.edges :
              e[2] = "CALLS" =>
                 /\ e[1] \in DOMAIN graph.nodes
                 /\ e[3] \in DOMAIN graph.nodes
                 /\ ~StartsWith(graph.nodes[e[1]].scip_symbol, LocalPrefix)
                 /\ ~StartsWith(graph.nodes[e[3]].scip_symbol, LocalPrefix)

\* A run has completed on a graph that held a local node with a call to it,
\* for an index with a local definition and a local reference inside a
\* structural function of a document of the repository.
C1_Witness ==
    /\ pc = "done"
    /\ \E id \in DOMAIN before.nodes :
          /\ StartsWith(before.nodes[id].scip_symbol, LocalPrefix)
          /\ \E e \in DOMAIN before.edges : e[2] = "CALLS" /\ e[3] = id
    /\ \E i \in DOMAIN index.documents :
          LET doc == index.documents[i] IN
          /\ ~OutsideRepo(doc.relative_path)
          /\ \E k \in DOMAIN Definitions(doc) :
                StartsWith(Definitions(doc)[k].symbol, LocalPrefix)
          /\ \E k \in DOMAIN References(doc) :
                /\ StartsWith(References(doc)[k].symbol, LocalPrefix)
                /\ ContainingFuncs(tsFiles[doc.relative_path].functions,
                                   RefLine(References(doc)[k])) # <<>>

-----------------------------------------------------------------------------
(***************************************************************************)
(* SpecIngestFaults: one run of ingest_index in which up to MaxFaults of   *)
(* the calls it makes raise.  A query that raises changes nothing in the   *)
(* graph.  `raised` records the document (0 for none) and the place.       *)
(***************************************************************************)

\* Exceptions raised during one run.
MaxFaults == 1

MayRaise == Cardinality(raised) < MaxFaults

\* session.run of the File query raises: no handler in _process_document,
\* the handler of ingest_index logs and re-raises.
FailCreateFileNode ==
    /\ MayRaise
    /\ pc = "doc"
    /\ docIdx <= Len(index.documents)
    /\ ~OutsideRepo(CurDoc.relative_path)
    /\ raised' = raised \cup {[doc |-> docIdx, at |-> "file"]}
    /\ pc' = "aborted"
    /\ session' = ExitSession(session)
    /\ UNCHANGED <<index, tsFiles, graph, before, run, docIdx, block, step>>
    /\ UNCHANGED <<argsVars, exVars, scopeVars, psVars, coVars, lbVars, cxVars, fcVars, brVars, dlVars>>

\* a query of a hierarchy block raises: the block's handler prints and the
\* document goes on behind the block
FailHierarchy ==
    /\ MayRaise
    /\ pc = "hierarchy"
    /\ raised' = raised \cup {[doc |-> docIdx, at |-> "hierarchy"]}
    /\ pc' = AfterBlock.pc
    /\ block' = AfterBlock.block
    /\ step' = 1
    /\ UNCHANGED <<session, index, tsFiles, graph, before, run, docIdx>>
    /\ UNCHANGED <<argsVars, exVars, scopeVars, psVars, coVars, lbVars, cxVars, fcVars, brVars, dlVars>>

\* the definition query raises: logged, the loop goes on
FailCreateDefinitionNode ==
    /\ MayRaise
    /\ pc = "definitions"
    /\ step <= Len(Definitions(CurDoc))
    /\ ~IsLocal(CurDef.symbol)
    /\ raised' = raised \cup {[doc |-> docIdx, at |-> "definition"]}
    /\ step' = step + 1
    /\ UNCHANGED <<session, index, tsFiles, graph, before, pc, run, docIdx, block>>
    /\ UNCHANGED <<argsVars, exVars, scopeVars, psVars, coVars, lbVars, cxVars, fcVars, brVars, dlVars>>

\* the import of TreeSitterParser or its constructor raises, ahead of the try
FailLoadParser ==
    /\ MayRaise
    /\ pc = "definitions"
    /\ step > Len(Definitions(CurDoc))
    /\ raised' = raised \cup {[doc |-> docIdx, at |-> "parser"]}
    /\ pc' = "aborted"
    /\ session' = ExitSession(session)
    /\ UNCHANGED <<index, tsFiles, graph, before, run, docIdx, block, step>>
    /\ UNCHANGED <<argsVars, exVars, scopeVars, psVars, coVars, lbVars, cxVars, fcVars, brVars, dlVars>>

\* ts_parser.parse(file_path) raises: logged, the document is over
FailParseFile ==
    /\ MayRaise
    /\ pc = "definitions"
    /\ step > Len(Definitions(CurDoc))
    /\ CurTs.exists
    /\ raised' = raised \cup {[doc |-> docIdx, at |-> "parse"]}
    /\ pc' = "doc"
    /\ docIdx' = docIdx + 1
    /\ step' = 1
    /\ UNCHANGED <<session, index, tsFiles, graph, before, run, block>>
    /\ UNCHANGED <<argsVars, exVars, scopeVars, psVars, coVars, lbVars, cxVars, fcVars, brVars, dlVars>>

\* the primary or the fallback query of a reference raises: logged, the loop
\* goes on
FailLinkCall ==
    /\ MayRaise
    /\ \/ pc = "references" /\ ResolveReference(CurTs.functions, CurRef).outcome = "caller"
       \/ pc = "fallback"
    /\ raised' = raised \cup {[doc |-> docIdx, at |-> "reference"]}
    /\ pc' = AfterRef.pc
    /\ docIdx' = AfterRef.docIdx
    /\ step' = AfterRef.step
    /\ UNCHANGED <<session, index, tsFiles, graph, before, run, block>>
    /\ UNCHANGED <<argsVars, exVars, scopeVars, psVars, coVars, lbVars, cxVars, fcVars, brVars, dlVars>>

\* the cleanup query raises: ingest_index logs and re-raises
FailCleanup ==
    /\ MayRaise
    /\ pc = "doc"
    /\ docIdx > Len(index.documents)
    /\ raised' = raised \cup {[doc |-> 0, at |-> "cleanup"]}
    /\ pc' = "aborted"
    /\ session' = ExitSession(session)
    /\ UNCHANGED <<index, tsFiles, graph, before, run, docIdx, block, step>>
    /\ UNCHANGED <<argsVars, exVars, scopeVars, psVars, coVars, lbVars, cxVars, fcVars, brVars, dlVars>>

NextIngestFaults ==
    \/ OpenSession
    \/ SkipOutsideDocument
    \/ CreateFileNode
    \/ LinkDirectory
    \/ LinkFile
    \/ SkipLocalDefinition
    \/ CreateDefinitionNode
    \/ ParseFunctionScopes
    \/ SkipLocalReference
    \/ SkipUnscopedReference
    \/ LinkCallByName
    \/ LinkCallByLine
    \/ CleanupLocalSymbols
    \/ FailCreateFileNode
    \/ FailHierarchy
    \/ FailCreateDefinitionNode
    \/ FailLoadParser
    \/ FailParseFile
    \/ FailLinkCall
    \/ FailCleanup

SpecIngestFaults == InitIngest /\ [][NextIngestFaults]_vars

\* C4: an exception raised while a document is processed stays with that
\* document: the run is not aborted, and when it ends every document of the
\* index has been handed to _process_document.
C4_DocumentFailureConfined ==
    (\E r \in raised : r.doc > 0) =>
        /\ pc # "aborted"
        /\ pc = "done" => docIdx > Len(index.documents)

-----------------------------------------------------------------------------
\* Whether a relative path leaves the directory it is relative to: walking
\* its parts, a ".." part is met with nothing left to go up from.
RECURSIVE EscapesFrom(_, _)
EscapesFrom(parts, depth) ==
    IF parts = <<>> THEN FALSE
    ELSE IF Head(parts) = <<".", ".">>
         THEN depth = 0 \/ EscapesFrom(Tail(parts), depth - 1)
         ELSE EscapesFrom(Tail(parts), depth + 1)

EscapesRoot(rel) == EscapesFrom(PathParts(rel), 0)

\* C11: a document whose relative path escapes the repository root is
\* skipped with no graph query and the graph unchanged; a document whose
\* path stays inside the root is not skipped: its File node is upserted.
C11_OutsideDocumentsSkipped ==
    [][(pc = "doc" /\ docIdx <= Len(index.documents)) =>
          IF EscapesRoot(CurDoc.relative_path)
          THEN graph' = graph /\ pc' = "doc" /\ docIdx' = docIdx + 1
          ELSE pc' = "hierarchy" /\ <<"File", FilePath>> \in DOMAIN graph'.nodes]_vars

-----------------------------------------------------------------------------
(***************************************************************************)
(* pre_scan_elixir and pre_scan_heex: the same loop over the files, with   *)
(* its own query each.  A file is a record with its path, the captures its *)
(* query yields (capture name and text, in the order execute_query hands   *)
(* them out) and the exception its scan raises:                            *)
(*   "UnicodeDecodeError"  f.read() raises, before any capture             *)
(*   "RuntimeError"        path.resolve() raises at the first wanted capture*)
(***************************************************************************)

\* if cap_name == 'name' (elixir.py) / if cap_name == 'comp_name' (heex.py)
WantedCapture(lang) == IF lang = "elixir" THEN "name" ELSE "comp_name"

\* except OSError: only a file that cannot be opened is let through.
HandledIfOSError(exc) == exc = "OSError"

\* except Exception as e
Handled(exc) == exc \in {"OSError", "UnicodeDecodeError", "RuntimeError"}

\* imports_map[name] = [path]: the list of the name is replaced.
OverwritePath(map, name, path) == (name :> <<path>>) @@ map

\* if name not in imports_map: imports_map[name] = []
EnsureName(map, name) == IF name \in DOMAIN map THEN map ELSE map @@ (name :> <<>>)

\* imports_map[name].append(str(path.resolve()))
AppendPath(map, name, path) ==
    [EnsureName(map, name) EXCEPT ![name] = Append(@, path)]

Cap(cap_name, text) == [cap_name |-> cap_name, text |-> text]

ElixirCaptures ==
    { <<Cap("call_type", "defmodule"), Cap("name", "A")>>,
      <<Cap("call_type", "defmodule"), Cap("name", "A"), Cap("def_type", "def"), Cap("name", "f")>>,
      <<Cap("def_type", "defp"), Cap("name", "f")>> }

HeexCaptures ==
    { <<>>, <<Cap("comp_name", ".a")>>, <<Cap("comp_name", ".a"), Cap("comp_name", ".b")>> }

ScanPaths == {<<"x">>, <<"y">>, <<"a", "/", ".", ".", "/", "x">>}

ScanFilePool(lang) ==
    {[path |-> p, captures |-> c, fails |-> f] :
        p \in ScanPaths,
        c \in (IF lang = "elixir" THEN ElixirCaptures ELSE HeexCaptures),
        f \in {"none", "UnicodeDecodeError", "RuntimeError"}}

\* Most files in the list handed to a pre-scan.
MaxFiles == 2

CurFile == psFiles[psIdx]
CurCap == CurFile.captures[psCap]

\* Where the scan stands after the pass for CurCap.
AfterCapture ==
    IF psCap < Len(CurFile.captures)
    THEN [pc |-> "captures", idx |-> psIdx, cap |-> psCap + 1]
    ELSE [pc |-> "file", idx |-> psIdx + 1, cap |-> 1]

\* Where the scan stands after CurFile raised exc.
AfterRaise(exc) ==
    IF Handled(exc) THEN [pc |-> "file", idx |-> psIdx + 1]
    ELSE [pc |-> "aborted", idx |-> psIdx]

InitPreScan ==
    /\ DownloadIdle
    /\ RegistryIdle
    /\ FindCallsIdle
    /\ ComplexityIdle
    /\ ArgsIdle
    /\ ExIdle
    /\ ScopeIdle
    /\ IngestIdle
    /\ ConcurrentIdle
    /\ LabelIdle
    /\ psLang \in {"elixir", "heex"}
    /\ psFiles \in UNION {[1..n -> ScanFilePool(psLang)] : n \in 0..MaxFiles}
    /\ psMap = <<>>
    /\ psIdx = 1
    /\ psCap = 1
    /\ psPc = "file"

\* with open(path) ...: tree = parse(...); execute_query(...)
ReadFile ==
    /\ psPc = "file"
    /\ psIdx <= Len(psFiles)
    /\ CurFile.fails # "UnicodeDecodeError"
    /\ IF CurFile.captures = <<>>
       THEN psPc' = "file" /\ psIdx' = psIdx + 1
       ELSE psPc' = "captures" /\ psIdx' = psIdx
    /\ psCap' = 1
    /\ UNCHANGED <<psLang, psFiles, psMap, argsVars, exVars, scopeVars, ingVars, coVars, lbVars, cxVars, fcVars, brVars, dlVars>>

\* f.read() raises
FailRead ==
    /\ psPc = "file"
    /\ psIdx <= Len(psFiles)
    /\ CurFile.fails = "UnicodeDecodeError"
    /\ psPc' = AfterRaise(CurFile.fails).pc
    /\ psIdx' = AfterRaise(CurFile.fails).idx
    /\ UNCHANGED <<psLang, psFiles, psMap, psCap, argsVars, exVars, scopeVars, ingVars, coVars, lbVars, cxVars, fcVars, brVars, dlVars>>

\* a capture the loop passes over
SkipCapture ==
    /\ psPc = "captures"
    /\ CurCap.cap_name # WantedCapture(psLang)
    /\ psPc' = AfterCapture.pc
    /\ psIdx' = AfterCapture.idx
    /\ psCap' = AfterCapture.cap
    /\ UNCHANGED <<psLang, psFiles, psMap, argsVars, exVars, scopeVars, ingVars, coVars, lbVars, cxVars, fcVars, brVars, dlVars>>

\* imports_map[name].append(str(path.resolve()))
RecordName ==
    /\ psPc = "captures"
    /\ CurCap.cap_name = WantedCapture(psLang)
    /\ CurFile.fails # "RuntimeError"
    /\ psMap' = AppendPath(psMap, CurCap.text, FilePathStr(CurFile.path))
    /\ psPc' = AfterCapture.pc
    /\ psIdx' = AfterCapture.idx
    /\ psCap' = AfterCapture.cap
    /\ UNCHANGED <<psLang, psFiles, argsVars, exVars, scopeVars, ingVars, coVars, lbVars, cxVars, fcVars, brVars, dlVars>>

\* path.resolve() raises, the name already entered
FailResolve ==
    /\ psPc = "captures"
    /\ CurCap.cap_name = WantedCapture(psLang)
    /\ CurFile.fails = "RuntimeError"
    /\ psMap' = EnsureName(psMap, CurCap.text)
    /\ psPc' = AfterRaise(CurFile.fails).pc
    /\ psIdx' = AfterRaise(CurFile.fails).idx
    /\ psCap' = 1
    /\ UNCHANGED <<psLang, psFiles, argsVars, exVars, scopeVars, ingVars, coVars, lbVars, cxVars, fcVars, brVars, dlVars>>

\* return imports_map
FinishScan ==
    /\ psPc = "file"
    /\ psIdx > Len(psFiles)
    /\ psPc' = "done"
    /\ UNCHANGED <<psLang, psFiles, psMap, psIdx, psCap, argsVars, exVars, scopeVars, ingVars, coVars, lbVars, cxVars, fcVars, brVars, dlVars>>

NextPreScan ==
    \/ ReadFile
    \/ FailRead
    \/ SkipCapture
    \/ RecordName
    \/ FailResolve
    \/ FinishScan

SpecPreScan == InitPreScan /\ [][NextPreScan]_vars

\* C12: a file whose scan raises never aborts the pre-scan: the scan ends by
\* returning the map, and the map holds, for every file whose scan did not
\* raise, each of its definition names with the file's resolved path.
C12_BadFileDoesNotAbortScan ==
    /\ psPc # "aborted"
    /\ psPc = "done" =>
          \A i \in DOMAIN psFiles :
             psFiles[i].fails = "none" =>
                \A k \in DOMAIN psFiles[i].captures :
                   LET c == psFiles[i].captures[k] IN
                   c.cap_name = WantedCapture(psLang) =>
                      /\ c.text \in DOMAIN psMap
                      /\ \E j \in DOMAIN psMap[c.text] :
                            psMap[c.text][j] = FilePathStr(psFiles[i].path)

\* The scan has returned; a file that raised came before a file with names.
C12_Witness ==
    /\ psPc = "done"
    /\ Len(psFiles) = 2
    /\ psFiles[1].fails # "none"
    /\ psFiles[2].fails = "none"
    /\ \E k \in DOMAIN psFiles[2].captures :
          psFiles[2].captures[k].cap_name = WantedCapture(psLang)

\* C13: every step of a pre-scan leaves each name of the map in the map, with
\* its earlier list of paths as a prefix of its list.
C13_MapOnlyGrows ==
    [][\A n \in DOMAIN psMap :
          /\ n \in DOMAIN psMap'
          /\ Len(psMap'[n]) >= Len(psMap[n])
          /\ SubSeq(psMap'[n], 1, Len(psMap[n])) = psMap[n]]_vars

\* A name found in two files maps to both paths, the first file's first.
C13_Witness ==
    /\ psPc = "done"
    /\ Len(psFiles) = 2
    /\ \E n \in DOMAIN psMap :
          /\ Len(psMap[n]) >= 2
          /\ psMap[n][1] = FilePathStr(psFiles[1].path)
          /\ psMap[n][Len(psMap[n])] = FilePathStr(psFiles[2].path)
          /\ psFiles[1].path # psFiles[2].path

-----------------------------------------------------------------------------
\* C14: the dictionary parse returns and every entity record in it carry
\* is_dependency equal to the is_dependency argument.
C14_IsDependencyPassedThrough ==
    exPc = "returned" =>
        /\ exRecord.is_dependency = exDep
        /\ \A i \in DOMAIN exRecord.functions :
              exRecord.functions[i].is_dependency = exDep
        /\ \A i \in DOMAIN exRecord.classes :
              exRecord.classes[i].is_dependency = exDep

-----------------------------------------------------------------------------
\* C15: in every state of an ingest_index run the graph holds at most one
\* node per scip_symbol value: a symbol that is a definition and a reference
\* target, in one document or in two, is one node.
C15_OneNodePerSymbol ==
    pc # "idle" =>
        \A a, b \in DOMAIN graph.nodes :
           (graph.nodes[a].scip_symbol # NoText
               /\ graph.nodes[a].scip_symbol = graph.nodes[b].scip_symbol) => a = b

\* A run has ended with a node that a definition gave its path and that is
\* the target of a verified CALLS edge written for a reference.
C15_Witness ==
    /\ pc = "done"
    /\ \E id \in DOMAIN graph.nodes :
          /\ graph.nodes[id].scip_symbol = SymC
          /\ graph.nodes[id].path # NoText
          /\ \E ed \in graph.verified : ed[3] = id

-----------------------------------------------------------------------------
(***************************************************************************)
(* _process_document as a function of the graph: DocStep is the next graph *)
(* query (or skipped loop pass) of a document from a position [pc, block,  *)
(* step], with the pc values of ingest_index and "begin" / "end" for the   *)
(* call and the return of _process_document.                                *)
(***************************************************************************)

DocBegin == [pc |-> "begin", block |-> 1, step |-> 1]
DocEnd == [pc |-> "end", block |-> 1, step |-> 1]

\* Where the reference loop of doc stands after the pass at pos.
NextRefPos(doc, pos) ==
    IF pos.step < Len(References(doc))
    THEN [pc |-> "references", block |-> 1, step |-> pos.step + 1]
    ELSE DocEnd

DocStep(g, doc, ts, symbol_map, pos) ==
    LET rel == doc.relative_path
        path == FilePathStr(rel)
        defs == Definitions(doc)
        refs == References(doc) IN
    IF pos.pc = "begin" THEN
        IF OutsideRepo(rel) THEN [graph |-> g, pos |-> DocEnd]
        ELSE [graph |-> MergeFileNode(g, path, rel, BaseName(path)),
              pos |-> [pc |-> "hierarchy", block |-> 1, step |-> 1]]
    ELSE IF pos.pc = "hierarchy" THEN
        IF pos.step <= Len(DirParts(rel))
        THEN [graph |-> MergeDirectory(g, ParentLabel(pos.step), DirPath(rel, pos.step - 1),
                                       DirPath(rel, pos.step), DirParts(rel)[pos.step]),
              pos |-> [pos EXCEPT !.step = @ + 1]]
        ELSE [graph |-> LinkFileToParent(g, ParentLabel(pos.step),
                                         DirPath(rel, pos.step - 1), path),
              pos |-> IF pos.block = 1
                      THEN [pc |-> "hierarchy", block |-> 2, step |-> 1]
                      ELSE [pc |-> "definitions", block |-> 1, step |-> 1]]
    ELSE IF pos.pc = "definitions" THEN
        IF pos.step <= Len(defs)
        THEN LET occ == defs[pos.step]
                 sym_info == SymInfo(symbol_map, occ.symbol) IN
             [graph |-> IF IsLocal(occ.symbol) THEN g
                        ELSE MergeDefinition(g, path, LabelOf(occ.symbol, sym_info),
                                             occ.symbol, ExtractName(occ.symbol, sym_info),
                                             occ.range[1] + 1),
              pos |-> [pos EXCEPT !.step = @ + 1]]
        ELSE [graph |-> g,
              pos |-> IF ~ts[rel].exists \/ ts[rel].functions = <<>> \/ refs = <<>>
                      THEN DocEnd
                      ELSE [pc |-> "references", block |-> 1, step |-> 1]]
    ELSE LET ref == refs[pos.step]
             res == ResolveReference(ts[rel].functions, ref)
             target_info == SymInfo(symbol_map, ref.symbol)
             callers == IF pos.pc = "references"
                        THEN CallersByName(g, path, res.caller.name)
                        ELSE CallersByLine(g, path, res.caller.line_number) IN
         IF pos.pc = "references" /\ res.outcome # "caller"
         THEN [graph |-> g, pos |-> NextRefPos(doc, pos)]
         ELSE [graph |-> LinkCalls(g, callers, TargetLabel(ref.symbol, target_info),
                                   ref.symbol, ExtractName(ref.symbol, target_info)),
               pos |-> IF pos.pc = "references" /\ Created(callers) = 0
                       THEN [pos EXCEPT !.pc = "fallback"]
                       ELSE NextRefPos(doc, pos)]

\* self._process_document(session, doc, repo_path, symbol_info_map), in one go
RECURSIVE RunDocumentFrom(_, _, _, _, _)
RunDocumentFrom(g, doc, ts, symbol_map, pos) ==
    IF pos.pc = "end" THEN g
    ELSE LET r == DocStep(g, doc, ts, symbol_map, pos) IN
         RunDocumentFrom(r.graph, doc, ts, symbol_map, r.pos)

RunDocument(g, doc, ts, symbol_map) == RunDocumentFrom(g, doc, ts, symbol_map, DocBegin)

(***************************************************************************)
(* SpecConcurrent: the two documents of an index, each handed to its own   *)
(* worker; the workers take turns at the granularity of one DocStep.       *)
(***************************************************************************)

Workers == {1, 2}

\* The graph an earlier ingest left, of an index whose one document m
\* defined p/g(). (the function has since moved to another file).
GraphEarlierIngest ==
    LET doc == [relative_path |-> PathM,
                occurrences |-> <<Occ(1, 4, SymG, 1)>>, symbols |-> <<>>]
        earlier == [documents |-> <<doc>>, external_symbols |-> <<InfoG>>] IN
    DeleteLocalNodes(RunDocument(GraphRepo, doc,
                                 (PathM :> [exists |-> FALSE, functions |-> <<>>]),
                                 SymbolInfoMap(earlier)))

InitConcurrent ==
    /\ DownloadIdle
    /\ RegistryIdle
    /\ FindCallsIdle
    /\ ComplexityIdle
    /\ LabelIdle
    /\ ArgsIdle
    /\ ExIdle
    /\ ScopeIdle
    /\ IngestIdle
    /\ PreScanIdle
    /\ coIndex \in {idx \in Indexes : Len(idx.documents) = 2}
    /\ coTs \in [InsidePaths(coIndex) -> TsResults]
    /\ coStart \in InitialGraphs \cup {GraphEarlierIngest}
    /\ coGraph = coStart
    /\ coPos = [w \in Workers |-> DocBegin]

\* the next query of worker w's document
WorkerStep(w) ==
    /\ coPos[w].pc # "end"
    /\ LET r == DocStep(coGraph, coIndex.documents[w], coTs, SymbolInfoMap(coIndex),
                        coPos[w]) IN
       /\ coGraph' = r.graph
       /\ coPos' = [coPos EXCEPT ![w] = r.pos]
    /\ UNCHANGED <<coIndex, coTs, coStart, argsVars, exVars, scopeVars, ingVars, psVars, lbVars, cxVars, fcVars, brVars, dlVars>>

NextConcurrent == \E w \in Workers : WorkerStep(w)

SpecConcurrent == InitConcurrent /\ [][NextConcurrent]_vars

\* C16: when both documents have been processed concurrently, the graph is
\* the graph that processing them one after the other (in either order)
\* gives: no write of one document is lost to the other.
C16_ConcurrentEqualsSequential ==
    (\A w \in Workers : coPos[w].pc = "end") =>
        LET map == SymbolInfoMap(coIndex)
            d1 == coIndex.documents[1]
            d2 == coIndex.documents[2] IN
        \/ coGraph = RunDocument(RunDocument(coStart, d1, coTs, map), d2, coTs, map)
        \/ coGraph = RunDocument(RunDocument(coStart, d2, coTs, map), d1, coTs, map)

-----------------------------------------------------------------------------
\* C17: every verified CALLS edge that a reference query writes starts at a
\* Function/Method node of the document's file that is the chosen caller's
\* node (the node of the function that starts at the chosen caller's line),
\* and at no node of another function, same name or not.
C17_CallEdgeFromChosenCallerOnly ==
    [][(pc = "references" \/ pc = "fallback") =>
          \A edge \in graph'.verified \ graph.verified :
              (/\ edge[1][1] \in CallerLabels
               /\ graph.nodes[edge[1]].path = FilePath
               /\ graph.nodes[edge[1]].line_number =
                      ResolveReference(CurTs.functions, CurRef).caller.line_number)]_vars

-----------------------------------------------------------------------------
(***************************************************************************)
(* The phases of _process_document, in the order of its code: the File     *)
(* node (151-154), the directory hierarchy (157-243), the definitions      *)
(* collected and their nodes upserted (255-311), the references matched    *)
(* and their CALLS edges upserted, one reference at a time (381-469).      *)
(***************************************************************************)

PhaseRank(p) ==
    CASE p = "doc" -> 0
      [] p = "hierarchy" -> 1
      [] p = "definitions" -> 2
      [] p = "references" -> 3
      [] p = "fallback" -> 3
      [] OTHER -> 4

\* The order the phases are claimed to have: definition nodes first, then
\* the directory hierarchy, then the references and their edges.
ClaimedRank(p) ==
    CASE p = "doc" -> 0
      [] p = "definitions" -> 1
      [] p = "hierarchy" -> 2
      [] p = "references" -> 3
      [] p = "fallback" -> 3
      [] OTHER -> 4

\* a step inside the processing of one document
SameDocument == pc \in {"doc", "hierarchy", "definitions", "references", "fallback"}
                /\ docIdx <= Len(index.documents)
                /\ docIdx' = docIdx /\ run' = run /\ pc' # "aborted"

\* C18 (as the code has it): a document passes through its phases in the
\* order file node, directory hierarchy linked, definitions collected and
\* their nodes upserted, references matched and CALLS edges upserted; no
\* step goes back to an earlier phase, and only reference steps write
\* verified CALLS edges.
C18_HierarchyThenDefinitionsThenEdges ==
    [][SameDocument =>
          (/\ PhaseRank(pc') >= PhaseRank(pc)
           /\ (graph'.verified \ graph.verified # {} => PhaseRank(pc) = 3))]_vars

\* C18 (as stated): the definition nodes of a document are upserted before
\* its directory hierarchy is linked: no step goes from the hierarchy phase
\* to the definitions phase.
C18_DefinitionsThenHierarchy ==
    [][SameDocument => ClaimedRank(pc') >= ClaimedRank(pc)]_vars

\* A document under a directory, with a definition, whose second reference
\* is matched after a verified CALLS edge from a node of its file was written.
C18_Witness ==
    /\ pc = "references"
    /\ step = 2
    /\ DirParts(CurDoc.relative_path) # <<>>
    /\ Definitions(CurDoc) # <<>>
    /\ \E edge \in graph.verified : graph.nodes[edge[1]].path = FilePath

-----------------------------------------------------------------------------
(***************************************************************************)
(* SpecLabel: the label of the node of one non-local definition            *)
(* occurrence (lines 277-293), over symbols with each trailing sigil and   *)
(* without one, and over the kinds of the table and a kind outside it.     *)
(***************************************************************************)

SymH == <<"p", "/", "h", "(", ")">>
SymM == <<"p", "/", "m", "/">>
SymV == <<"p", "/", "v", ".">>
SymPackageModule ==
    <<"p", "a", "c", "k", "a", "g", "e", " ", "m", "o", "d", "u", "l", "e", " ", "x">>
SymPackage == <<"p", "a", "c", "k", "a", "g", "e", " ", "x">>
SymModuleTerm == <<"m", "o", "d", "u", "l", "e", " ", "x", ".">>

LabelSymbols == {SymF, SymH, SymC, SymM, SymV, SymPackageModule, SymPackage, SymModuleTerm}

\* kind 5 stands for the kinds KIND_TO_LABEL has no entry for
LabelKinds == {0, 5, Class, Method, Function, Variable, Interface, Constructor,
               Struct, Enum, Package, Module, Namespace}

InitLabel ==
    /\ DownloadIdle
    /\ RegistryIdle
    /\ FindCallsIdle
    /\ ComplexityIdle
    /\ ArgsIdle
    /\ ExIdle
    /\ ScopeIdle
    /\ IngestIdle
    /\ PreScanIdle
    /\ ConcurrentIdle
    /\ lbSymbol \in LabelSymbols
    /\ lbInfo \in {[kind |-> k, display_name |-> NoText] : k \in LabelKinds}
    /\ lbLabel = "none"
    /\ lbPc = "occurrence"

\* label = KIND_TO_LABEL.get(kind) ... if not label: label = "Symbol"
ResolveLabel ==
    /\ lbPc = "occurrence"
    /\ ~IsLocal(lbSymbol)
    /\ lbLabel' = LabelOf(lbSymbol, lbInfo)
    /\ lbPc' = "labelled"
    /\ UNCHANGED <<lbSymbol, lbInfo, argsVars, exVars, scopeVars, ingVars, psVars, coVars, cxVars, fcVars, brVars, dlVars>>

NextLabel == ResolveLabel

SpecLabel == InitLabel /\ [][NextLabel]_vars

\* the table has an entry for the kind and the entry is not "Symbol"
HasSpecificLabel(kind) == KindToLabel(kind) \notin {"None", "Symbol"}

\* C19 (as the code has it): the label of a definition node is the table
\* entry of the kind when there is one other than "Symbol"; otherwise
\* Function for a symbol ending in ")." or "()", Class for one ending in
\* "#", Module for one ending in "/" or holding both "package" and
\* "module", and "Symbol" in every remaining case.
C19_LabelFromKindSigilOrPackageModule ==
    lbPc = "labelled" =>
        lbLabel =
            IF HasSpecificLabel(lbInfo.kind) THEN KindToLabel(lbInfo.kind)
            ELSE IF EndsWith(lbSymbol, <<")", ".">>) \/ EndsWith(lbSymbol, <<"(", ")">>)
                 THEN "Function"
            ELSE IF EndsWith(lbSymbol, <<"#">>) THEN "Class"
            ELSE IF EndsWith(lbSymbol, <<"/">>) THEN "Module"
            ELSE IF HasSubstring(lbSymbol, <<"p", "a", "c", "k", "a", "g", "e">>)
                    /\ HasSubstring(lbSymbol, <<"m", "o", "d", "u", "l", "e">>)
                 THEN "Module"
            ELSE "Symbol"

\* C19 (as stated): without a specific table entry the label is Function,
\* Class or Module by the trailing sigil and "Symbol" in every remaining case.
C19_LabelFromKindOrSigil ==
    lbPc = "labelled" =>
        lbLabel =
            IF HasSpecificLabel(lbInfo.kind) THEN KindToLabel(lbInfo.kind)
            ELSE IF EndsWith(lbSymbol, <<")", ".">>) \/ EndsWith(lbSymbol, <<"(", ")">>)
                 THEN "Function"
            ELSE IF EndsWith(lbSymbol, <<"#">>) THEN "Class"
            ELSE IF EndsWith(lbSymbol, <<"/">>) THEN "Module"
            ELSE "Symbol"

\* A symbol without a trailing sigil, of a kind outside the table, labelled
\* Module for holding "package" and "module".
C19_Witness ==
    /\ lbPc = "labelled"
    /\ lbSymbol = SymPackageModule
    /\ lbInfo.kind = 5
    /\ lbLabel = "Module"

-----------------------------------------------------------------------------
(***************************************************************************)
(* SpecHierarchy: ingest_index on indexes whose documents lie at the root, *)
(* one and two directories deep, with two documents under one directory,  *)
(* on a graph without directories and on one that holds a directory       *)
(* already; the structural parse of m may name a function otherwise than   *)
(* the graph does.                                                         *)
(***************************************************************************)

PathAK == <<"a", "/", "k">>
PathABN == <<"a", "/", "b", "/", "n">>

\* The documents: every occurrence list for m, none for the other files.
HierarchyDocs ==
    {[relative_path |-> PathM, occurrences |-> o, symbols |-> DocSymbols(o)] :
        o \in OccLists}
    \cup {[relative_path |-> p, occurrences |-> <<>>, symbols |-> <<>>] :
             p \in {PathAN, PathAK, PathABN, PathOutside}}

HierarchyIndexes ==
    {[documents |-> ds, external_symbols |-> <<InfoG>>] :
        ds \in {d \in UNION {[1..n -> HierarchyDocs] : n \in 1..MaxDocs} :
                  \A i, j \in DOMAIN d : i # j => d[i].relative_path # d[j].relative_path}}

DirectoryAId == <<"Directory", <<"/", "r", "/", "a">>>>

\* GraphBuilt with the directory a under the repository.
GraphTree ==
    [GraphBuilt EXCEPT
        !.nodes = @ @@ (DirectoryAId :> [NoProps EXCEPT !.path = DirectoryAId[2],
                                                        !.name = <<"a">>]),
        !.edges = @ @@ (<<RepositoryId, "CONTAINS", DirectoryAId>> :> 1)]

\* The structural parse of m after its function g was renamed h: the graph
\* of the structural pass may still hold g at that line.
TsRenamed == [exists |-> TRUE, functions |-> <<TsFunc(<<"h">>, 2, 3)>>]

InitHierarchy ==
    /\ DownloadIdle
    /\ RegistryIdle
    /\ FindCallsIdle
    /\ ComplexityIdle
    /\ ArgsIdle
    /\ ExIdle
    /\ ScopeIdle
    /\ PreScanIdle
    /\ ConcurrentIdle
    /\ LabelIdle
    /\ index \in HierarchyIndexes
    /\ tsFiles \in {ts \in [InsidePaths(index) -> TsResults \cup {TsRenamed}] :
                       \A p \in DOMAIN ts : p # PathM => ~ts[p].exists}
    /\ graph \in {GraphRepo, GraphTree}
    /\ before = graph
    /\ pc = "ready"
    /\ run = 1
    /\ docIdx = 1
    /\ block = 1
    /\ step = 1
    /\ raised = {}
    /\ session = [opened |-> 0, open |-> 0]

SpecHierarchy == InitHierarchy /\ [][NextIngest]_vars

\* The documents _process_document has returned for in the current run.
ProcessedDocs ==
    IF pc = "done" THEN DOMAIN index.documents
    ELSE IF pc \in {"doc", "hierarchy", "definitions", "references", "fallback"}
         THEN 1..(docIdx - 1)
    ELSE {}

\* the absolute path of the j-th directory above the file at rel
AbsoluteDir(rel, j) == JoinParts(PathParts(RepoPath) \o SubSeq(PathParts(rel), 1, j))

\* the node of the j-th level above the file at rel: the root for j = 0
LevelId(rel, j) ==
    IF j = 0 THEN RepositoryId ELSE <<"Directory", AbsoluteDir(rel, j)>>

\* exactly one CONTAINS edge from a to b
ContainsOnce(a, b) ==
    /\ <<a, "CONTAINS", b>> \in DOMAIN graph.edges
    /\ graph.edges[<<a, "CONTAINS", b>>] = 1

\* C20: for every processed document d1/../dk/file inside the root the
\* graph holds the Directory node of each of d1 .. dk, keyed by its
\* absolute path, and exactly one CONTAINS edge root -> d1, d1 -> d2, ..,
\* dk -> File (root -> File when k = 0); and the run has added no Directory
\* node but these, also when directories are shared between documents,
\* were in the graph before, or the index is ingested again.
C20_DirectoryChainWithoutDuplicates ==
    /\ \A i \in ProcessedDocs :
          LET rel == index.documents[i].relative_path
              k == Len(PathParts(rel)) - 1 IN
          ~OutsideRepo(rel) =>
              /\ \A j \in 1..k :
                    /\ LevelId(rel, j) \in DOMAIN graph.nodes
                    /\ graph.nodes[LevelId(rel, j)].path = AbsoluteDir(rel, j)
                    /\ ContainsOnce(LevelId(rel, j - 1), LevelId(rel, j))
              /\ ContainsOnce(LevelId(rel, k), <<"File", FilePathStr(rel)>>)
    /\ \A id \in DOMAIN graph.nodes :
          id[1] = "Directory" =>
              \/ id \in DOMAIN before.nodes
              \/ \E i \in DOMAIN index.documents :
                    LET rel == index.documents[i].relative_path IN
                    /\ ~OutsideRepo(rel)
                    /\ \E j \in 1..(Len(PathParts(rel)) - 1) : id = LevelId(rel, j)

\* The second run is over for a/b/n and a/k: the directory a is shared, and
\* was in the graph before the first run.
C20_Witness ==
    /\ pc = "done"
    /\ run = 2
    /\ {index.documents[i].relative_path : i \in DOMAIN index.documents}
           = {PathABN, PathAK}
    /\ DirectoryAId \in DOMAIN before.nodes
    /\ ContainsOnce(DirectoryAId, <<"Directory", <<"/", "r", "/", "a", "/", "b">>>>)
    /\ ContainsOnce(DirectoryAId, <<"File", <<"/", "r", "/", "a", "/", "k">>>>)

-----------------------------------------------------------------------------
\* C21: the lookup by (path, name) is the query of every attributed
\* reference; the lookup by (path, line_number) runs exactly when the first
\* lookup matched no Function/Method node of the file with the caller's
\* name, and only then.
C21_FallbackIffNameLookupEmpty ==
    [][/\ (pc = "references" /\ ResolveReference(CurTs.functions, CurRef).outcome = "caller")
          => (pc' = "fallback" <=>
                ~\E id \in DOMAIN graph.nodes :
                    /\ id[1] \in {"Function", "Method"}
                    /\ graph.nodes[id].path = FilePath
                    /\ graph.nodes[id].name = ChooseCaller(CurTs.functions, RefLine(CurRef)).name)
       /\ (pc' = "fallback" /\ pc # "fallback") => pc = "references"
       /\ pc = "fallback" => pc' # "fallback"]_vars

\* The fallback is about to run for a reference inside a function f whose
\* name no Function/Method node of the file has, while such a node does
\* exist at f's line.
C21_Witness ==
    /\ pc = "fallback"
    /\ CallersByName(graph, FilePath, ChooseCaller(CurTs.functions, RefLine(CurRef)).name) = {}
    /\ CallersByLine(graph, FilePath,
                     ChooseCaller(CurTs.functions, RefLine(CurRef)).line_number) # {}

-----------------------------------------------------------------------------
\* no span of the functions list holds the line of the occurrence
OutsideEverySpan(funcs, occ) ==
    \A i \in DOMAIN funcs :
        ~(funcs[i].line_number <= occ.range[1] + 1 /\ occ.range[1] + 1 <= funcs[i].end_line)

\* C22: the pass of the reference loop for a non-local reference whose line
\* lies in the span of no structural function of the file writes nothing:
\* the graph is unchanged and no fallback query follows.
C22_UnscopedReferenceWritesNothing ==
    [][(/\ pc = "references"
        /\ ~StartsWith(CurRef.symbol, LocalPrefix)
        /\ OutsideEverySpan(CurTs.functions, CurRef))
          => (graph' = graph /\ pc' # "fallback")]_vars

\* The first document is over; the file has structural functions, every
\* reference of the document was non-local and outside their spans, and
\* the graph holds no node for a referenced symbol.
C22_Witness ==
    /\ pc = "doc"
    /\ run = 1
    /\ docIdx = 2
    /\ ~OutsideRepo(index.documents[1].relative_path)
    /\ LET d == index.documents[1]
           funcs == tsFiles[d.relative_path].functions IN
       /\ funcs # <<>>
       /\ References(d) # <<>>
       /\ \A i \in DOMAIN References(d) :
             /\ ~IsLocal(References(d)[i].symbol)
             /\ OutsideEverySpan(funcs, References(d)[i])
             /\ \A id \in DOMAIN graph.nodes :
                   graph.nodes[id].scip_symbol # References(d)[i].symbol

-----------------------------------------------------------------------------
\* the graph has a Function/Method node of the file with this name,
\* or with this line
HasCallerNode(path, name, line_number) ==
    \E id \in DOMAIN graph.nodes :
        /\ id[1] \in {"Function", "Method"}
        /\ graph.nodes[id].path = path
        /\ (graph.nodes[id].name = name \/ graph.nodes[id].line_number = line_number)

\* C29: when the graph has no Function/Method node of the file with the
\* caller's name and none with the caller's line, neither query of the
\* reference changes the graph: no target node, no CALLS edge.
C29_NoCallerNoWrite ==
    [][(/\ pc = "references" \/ pc = "fallback"
        /\ pc = "references" => ResolveReference(CurTs.functions, CurRef).outcome = "caller"
        /\ ~HasCallerNode(FilePath,
                          ChooseCaller(CurTs.functions, RefLine(CurRef)).name,
                          ChooseCaller(CurTs.functions, RefLine(CurRef)).line_number))
          => graph' = graph]_vars

\* Both lookups of the first reference of a document found nothing while
\* its target symbol has no node; the second reference is next and the
\* target still has no node.
C29_Witness ==
    /\ pc = "references"
    /\ step = 2
    /\ run = 1
    /\ LET ref == References(CurDoc)[1] IN
       /\ ResolveReference(CurTs.functions, ref).outcome = "caller"
       /\ ~HasCallerNode(FilePath,
                         ChooseCaller(CurTs.functions, RefLine(ref)).name,
                         ChooseCaller(CurTs.functions, RefLine(ref)).line_number)
       /\ \A id \in DOMAIN graph.nodes : graph.nodes[id].scip_symbol # ref.symbol

-----------------------------------------------------------------------------
\* the cleanup query was issued in this run: it returned, or it raised
CleanupIssued == pc = "done" \/ \E r \in raised : r.at = "cleanup"

-----------------------------------------------------------------------------
\* C24: a run of ingest_index acquires one session, holds it while the
\* documents and the cleanup are processed, and holds none once the run is
\* over, whether it returned or an exception of a document or of the
\* cleanup query went to the caller.
C24_SessionReleasedOnEveryExit ==
    /\ pc \in {"done", "aborted"} => (session.opened = 1 /\ session.open = 0)
    /\ pc \in {"doc", "hierarchy", "definitions", "references", "fallback"}
          => (session.opened = 1 /\ session.open = 1)
    /\ pc = "ready" => session.open = 0

\* An exception of the second document has ended the run; the session is
\* released.
C24_Witness ==
    /\ pc = "aborted"
    /\ \E r \in raised : r.doc = 2
    /\ session.opened = 1
    /\ session.open = 0

-----------------------------------------------------------------------------
(***************************************************************************)
(* SpecOrder: the two documents of an index processed one after the other, *)
(* in either order (the order of index.documents is the order of the       *)
(* loop of ingest_index).                                                  *)
(***************************************************************************)

\* the next query of document w, no other document being under way
SequentialStep(w) ==
    /\ \A v \in Workers \ {w} : coPos[v].pc \in {"begin", "end"}
    /\ WorkerStep(w)

NextOrder == \E w \in Workers : SequentialStep(w)

SpecOrder == InitConcurrent /\ [][NextOrder]_vars

\* the non-local symbols with a definition occurrence in document doc
DefinedIn(doc) ==
    {doc.occurrences[i].symbol : i \in {k \in DOMAIN doc.occurrences :
        doc.occurrences[k].symbol_roles % 2 = 1
        /\ ~StartsWith(doc.occurrences[k].symbol, LocalPrefix)}}

\* C30: when no non-local symbol is defined in both documents, the graph
\* ingest_index leaves (the documents processed in either order, then the
\* cleanup) is the graph it leaves for the documents in index order.
C30_DocumentOrderIrrelevant ==
    (/\ \A w \in Workers : coPos[w].pc = "end"
     /\ DefinedIn(coIndex.documents[1]) \cap DefinedIn(coIndex.documents[2]) = {})
      => DeleteLocalNodes(coGraph) =
           DeleteLocalNodes(
             RunDocument(RunDocument(coStart, coIndex.documents[1], coTs,
                                     SymbolInfoMap(coIndex)),
                         coIndex.documents[2], coTs, SymbolInfoMap(coIndex)))

-----------------------------------------------------------------------------
(***************************************************************************)
(* ElixirTreeSitterParser._calculate_complexity (elixir.py:132-156).       *)
(* A syntax node is a record of its type, its text (the source text it     *)
(* spans, a sequence of characters) and its children, the anonymous tokens *)
(* included.                                                               *)
(***************************************************************************)

\* the spelling of the tokens and names that occur in the trees
Chars ==
    [t \in {"case", "cond", "if", "unless", "with", "try", "rescue", "catch",
            "&&", "||", "and", "or", "+", "=", "do", "end", "def", "->", "(",
            ")", ".", ",", "a", "b", "f", "g", "x", "port", "A", "B",
            "\n", "defp", "defmodule"} |->
        CASE t = "case" -> <<"c", "a", "s", "e">>
          [] t = "cond" -> <<"c", "o", "n", "d">>
          [] t = "if" -> <<"i", "f">>
          [] t = "unless" -> <<"u", "n", "l", "e", "s", "s">>
          [] t = "with" -> <<"w", "i", "t", "h">>
          [] t = "try" -> <<"t", "r", "y">>
          [] t = "rescue" -> <<"r", "e", "s", "c", "u", "e">>
          [] t = "catch" -> <<"c", "a", "t", "c", "h">>
          [] t = "&&" -> <<"&", "&">>
          [] t = "||" -> <<"|", "|">>
          [] t = "and" -> <<"a", "n", "d">>
          [] t = "or" -> <<"o", "r">>
          [] t = "do" -> <<"d", "o">>
          [] t = "end" -> <<"e", "n", "d">>
          [] t = "def" -> <<"d", "e", "f">>
          [] t = "defp" -> <<"d", "e", "f", "p">>
          [] t = "defmodule" -> <<"d", "e", "f", "m", "o", "d", "u", "l", "e">>
          [] t = "->" -> <<"-", ">">>
          [] t = "port" -> <<"p", "o", "r", "t">>
          [] OTHER -> <<t>>]

Leaf(type, text) ==
    [type |-> type, text |-> text, children |-> <<>>, gap |-> <<>>]

\* an inner node spans its children and the `gap` between them
Inner(type, children, gap) ==
    [type |-> type,
     text |-> Join([k \in 1..Len(children) |-> children[k].text], gap),
     children |-> children,
     gap |-> gap]

Token(t) == Leaf(t, Chars[t])
Identifier(t) == Leaf("identifier", Chars[t])
Alias(t) == Leaf("alias", Chars[t])
Space == <<" ">>
NoGap == <<>>

\* left op right
BinaryOperator(left, op, right) ==
    Inner("binary_operator", <<left, Token(op), right>>, Space)

DoBlock(body) ==
    Inner("do_block", <<Token("do")>> \o body \o <<Token("end")>>, Space)

\* keyword argument do ... end
KeywordCall(keyword, argument, body) ==
    Inner("call", <<Identifier(keyword),
                    Inner("arguments", <<argument>>, NoGap),
                    DoBlock(body)>>, Space)

StabClause(pattern, body) ==
    Inner("stab_clause", <<pattern, Token("->"), body>>, Space)

\* try do body rescue x -> handler end, and the same with catch
TryCall(body, section, handler) ==
    Inner("call",
          <<Identifier("try"),
            DoBlock(<<body,
                      Inner(section \o "_block",
                            <<Token(section),
                              StabClause(Identifier("x"), handler)>>,
                            Space)>>)>>,
          Space)

\* def f(a) do body end
FunctionDefinition(body) ==
    Inner("call",
          <<Identifier("def"),
            Inner("arguments",
                  <<Inner("call",
                          <<Identifier("f"),
                            Inner("arguments",
                                  <<Token("("), Identifier("a"), Token(")")>>,
                                  NoGap)>>,
                          NoGap)>>,
                  NoGap),
            DoBlock(<<body>>)>>,
          Space)

complexity_keywords ==
    {"case", "cond", "if", "unless", "with", "try", "rescue", "catch"}
complexity_operators == {"&&", "||", "and", "or"}

\* what one call of traverse adds to count for the node n itself
CountsNode(n) ==
    IF n.type \in complexity_keywords THEN 1
    ELSE IF n.type = "identifier"
            /\ \E k \in complexity_keywords : n.text = Chars[k] THEN 1
    ELSE IF n.type = "binary_operator"
            /\ \E op \in complexity_operators : HasSubstring(n.text, Chars[op])
         THEN 1
    ELSE 0

RECURSIVE Traverse(_)
Traverse(n) ==
    LET RECURSIVE Children(_)
        Children(k) ==
            IF k > Len(n.children) THEN 0
            ELSE Traverse(n.children[k]) + Children(k + 1)
    IN CountsNode(n) + Children(1)

CalculateComplexity(node) == 1 + Traverse(node)

\* the expressions of the function bodies
Operands == {Identifier("a"), Identifier("b"), Identifier("port")}
Operators == complexity_operators \cup {"+", "="}
SimpleExpressions ==
    Operands \cup
    {BinaryOperator(l, op, r) : l \in Operands, op \in Operators, r \in Operands}
NestedExpressions ==
    {BinaryOperator(Identifier("x"), op, e) :
        op \in {"=", "&&", "or"}, e \in SimpleExpressions \ Operands}
Conditions ==
    {Identifier("a"),
     BinaryOperator(Identifier("a"), "&&", Identifier("b")),
     BinaryOperator(Identifier("a"), "+", Identifier("b"))}
BranchingExpressions ==
    {KeywordCall(k, c, <<e>>) :
        k \in {"case", "cond", "if", "unless", "with"},
        c \in Conditions,
        e \in {Identifier("b"),
               BinaryOperator(Identifier("a"), "or", Identifier("b")),
               KeywordCall("if", Identifier("a"), <<Identifier("b")>>)}}
    \cup
    {TryCall(e, s, h) :
        e \in Conditions, s \in {"rescue", "catch"},
        h \in {Identifier("b"),
               BinaryOperator(Identifier("a"), "||", Identifier("b"))}}
FunctionBodies ==
    SimpleExpressions \cup NestedExpressions \cup BranchingExpressions

InitComplexity ==
    /\ DownloadIdle
    /\ RegistryIdle
    /\ FindCallsIdle
    /\ ArgsIdle
    /\ ExIdle
    /\ ScopeIdle
    /\ IngestIdle
    /\ PreScanIdle
    /\ ConcurrentIdle
    /\ LabelIdle
    /\ cxNode \in {FunctionDefinition(body) : body \in FunctionBodies}
    /\ cxComplexity = 0
    /\ cxPc = "node"

\* complexity = self._calculate_complexity(func_node)
CountComplexity ==
    /\ cxPc = "node"
    /\ cxComplexity' = CalculateComplexity(cxNode)
    /\ cxPc' = "counted"
    /\ UNCHANGED <<cxNode, argsVars, exVars, scopeVars, ingVars, psVars, coVars, lbVars, fcVars, brVars, dlVars>>

NextComplexity == CountComplexity

SpecComplexity == InitComplexity /\ [][NextComplexity]_vars

\* the branching constructs and the short-circuit operators of a subtree, by
\* the structure of the tree
IsBranchingConstruct(n) ==
    \/ /\ n.type = "call"
       /\ n.children[1].type = "identifier"
       /\ \E k \in {"case", "cond", "if", "unless", "with", "try"} :
              n.children[1].text = Chars[k]
    \/ n.type \in {"rescue_block", "catch_block"}

IsShortCircuitOperator(n) ==
    /\ n.type = "binary_operator"
    /\ n.children[2].type \in {"&&", "||", "and", "or"}

RECURSIVE ConstructsAndOperators(_)
ConstructsAndOperators(n) ==
    LET RECURSIVE Below(_)
        Below(k) ==
            IF k > Len(n.children) THEN 0
            ELSE ConstructsAndOperators(n.children[k]) + Below(k + 1)
    IN (IF IsBranchingConstruct(n) \/ IsShortCircuitOperator(n) THEN 1 ELSE 0)
       + Below(1)

\* C25: the complexity of a function is 1 plus the number of branching
\* constructs plus the number of short-circuit boolean operators in its
\* subtree, each counted once.
C25_ComplexityCountsEachOnce ==
    cxPc = "counted" => cxComplexity = 1 + ConstructsAndOperators(cxNode)

-----------------------------------------------------------------------------
(***************************************************************************)
(* ElixirTreeSitterParser._find_calls (elixir.py:367-425).  A node of the  *)
(* tree is named by its path, the child indexes that lead to it from the   *)
(* root; its bytes follow from the texts ahead of it.                      *)
(***************************************************************************)

RECURSIVE NodeAt(_, _)
NodeAt(root, path) ==
    IF path = <<>> THEN root
    ELSE NodeAt(root.children[Head(path)], Tail(path))

\* node.parent
ParentPath(path) == SubSeq(path, 1, Len(path) - 1)

\* node.start_byte, node.end_byte, node.start_point[0]
RECURSIVE TreeStartByte(_, _)
TreeStartByte(root, path) ==
    IF path = <<>> THEN 0
    ELSE LET up == NodeAt(root, ParentPath(path))
             RECURSIVE Ahead(_)
             Ahead(j) ==
                 IF j >= path[Len(path)] THEN 0
                 ELSE Len(up.children[j].text) + Len(up.gap) + Ahead(j + 1)
         IN TreeStartByte(root, ParentPath(path)) + Ahead(1)

TreeEndByte(root, path) ==
    TreeStartByte(root, path) + Len(NodeAt(root, path).text)

TreeStartRow(root, path) ==
    Cardinality({i \in 1..TreeStartByte(root, path) : root.text[i] = "\n"})

\* the nodes of the tree from `path` down, in document order
RECURSIVE Preorder(_, _)
Preorder(root, path) ==
    LET n == NodeAt(root, path)
        RECURSIVE From(_)
        From(k) ==
            IF k > Len(n.children) THEN <<>>
            ELSE Preorder(root, path \o <<k>>) \o From(k + 1)
    IN <<path>> \o From(1)

\* the positions of the children of the given type
TreeChildrenOfType(n, type) ==
    {k \in 1..Len(n.children) : n.children[k].type = type}

Min(S) == CHOOSE m \in S : \A o \in S : m <= o

CallCaptureNames == <<"receiver", "method", "call_args", "call_node">>

\* (call (dot left: (_) @receiver right: (identifier) @method)
\*       (arguments)? @call_args) @call_node
CallMatchAt(root, c) ==
    LET n == NodeAt(root, c)
        dots == {d \in TreeChildrenOfType(n, "dot") :
                    /\ Len(n.children[d].children) = 3
                    /\ n.children[d].children[3].type = "identifier"} IN
    IF n.type # "call" \/ dots = {} THEN <<>>
    ELSE LET d == Min(dots)
             args == {k \in TreeChildrenOfType(n, "arguments") : k > d} IN
         <<<<c \o <<d, 1>>, "receiver">>, <<c \o <<d, 3>>, "method">>>>
         \o (IF args = {} THEN <<>> ELSE <<<<c \o <<Min(args)>>, "call_args">>>>)
         \o <<<<c, "call_node">>>>

RECURSIVE Concat(_)
Concat(seqs) == IF seqs = <<>> THEN <<>> ELSE Head(seqs) \o Concat(Tail(seqs))

\* the matches of the calls query, in document order of their call nodes
CallMatches(root) ==
    LET nodes == Preorder(root, <<>>) IN
    SelectSeq([k \in 1..Len(nodes) |-> CallMatchAt(root, nodes[k])],
              LAMBDA m : m # <<>>)

\* list(execute_query(self.language, query_str, root_node))
ExecuteCallsQuery(root, order) ==
    LET ms == CallMatches(root) IN
    IF order = "match" THEN Concat(ms)
    ELSE Concat([i \in 1..Len(CallCaptureNames) |->
                    Concat([k \in 1..Len(ms) |->
                               SelectSeq(ms[k],
                                         LAMBDA cap : cap[2] = CallCaptureNames[i])])])

\* node.start_byte >= call_node.start_byte and node.end_byte <= call_node.end_byte
TreeSpanContains(root, call_node, node) ==
    /\ TreeStartByte(root, node) >= TreeStartByte(root, call_node)
    /\ TreeEndByte(root, node) <= TreeEndByte(root, call_node)

\* captures_by_call after the first loop: one entry per call_node capture
SeedCalls(caps) ==
    LET nodes == SelectSeq(caps, LAMBDA cap : cap[2] = "call_node") IN
    [k \in 1..Len(nodes) |->
        [node |-> nodes[k][1], receiver |-> NoText, method |-> NoText,
         args |-> <<>>]]

\* the body of the inner loop for one capture and one entry
AttachCallCapture(root, data, cap) ==
    IF ~TreeSpanContains(root, data.node, cap[1]) THEN data
    ELSE IF cap[2] = "receiver"
         THEN [data EXCEPT !.receiver = NodeAt(root, cap[1]).text]
    ELSE IF cap[2] = "method"
         THEN [data EXCEPT !.method = NodeAt(root, cap[1]).text]
    ELSE IF cap[2] = "call_args"
         THEN [data EXCEPT !.args = ParseArguments(NodeAt(root, cap[1]).text)]
    ELSE data

\* the second loop
RECURSIVE CorrelateCalls(_, _, _)
CorrelateCalls(root, byCall, caps) ==
    IF caps = <<>> THEN byCall
    ELSE CorrelateCalls(root,
                        [k \in 1..Len(byCall) |->
                            AttachCallCapture(root, byCall[k], Head(caps))],
                        Tail(caps))

\* the name of a definition call: the first alias or call child of its first
\* arguments child
TreeContextName(curr) ==
    LET args == TreeChildrenOfType(curr, "arguments")
        arg == curr.children[Min(args)]
        named == {k \in 1..Len(arg.children) :
                     arg.children[k].type \in {"alias", "call"}}
        ac == arg.children[Min(named)]
        ids == TreeChildrenOfType(ac, "identifier") IN
    IF args = {} \/ named = {} THEN NoText
    ELSE IF ac.type = "alias" THEN ac.text
    ELSE IF ids = {} THEN NoText
    ELSE ac.children[Min(ids)].text

\* _get_parent_context: the loop `while curr:`; curr is the path of a node,
\* <<0>> stands for the parent of the root
RECURSIVE TreeContextFrom(_, _, _)
TreeContextFrom(root, curr, types) ==
    IF curr = <<0>> THEN <<NoText, None, NoLine>>
    ELSE LET n == NodeAt(root, curr)
             ids == IF n.type = "call"
                    THEN TreeChildrenOfType(n, "identifier") ELSE {}
             up == IF curr = <<>> THEN <<0>> ELSE ParentPath(curr)
             found == IF ids = {} THEN {}
                      ELSE {t \in types : n.children[Min(ids)].text = Chars[t]}
         IN IF found # {} /\ TreeContextName(n) # NoText
            THEN <<TreeContextName(n), CHOOSE t \in found : TRUE,
                   TreeStartRow(root, curr) + 1>>
            ELSE TreeContextFrom(root, up, types)

TreeParentContext(root, node, types) ==
    TreeContextFrom(root, IF node = <<>> THEN <<0>> ELSE ParentPath(node), types)

\* the dictionary appended for one entry of captures_by_call
CallEntry(root, data) ==
    LET context == TreeParentContext(root, data.node, {"defmodule", "def", "defp"})
        enclosing == TreeParentContext(root, data.node, {"defmodule"}) IN
    [name |-> data.method,
     full_name |-> IF data.receiver # NoText
                   THEN data.receiver \o <<".">> \o data.method
                   ELSE data.method,
     line_number |-> TreeStartRow(root, data.node) + 1,
     args |-> data.args,
     inferred_obj_type |-> None,
     context |-> context,
     class_context |-> IF context[2] \in {"def", "defp"} THEN enclosing[1]
                       ELSE IF context[2] = "defmodule" THEN context[1]
                       ELSE NoText,
     lang |-> "elixir",
     is_dependency |-> FALSE]

\* the third loop
EmitCalls(root, byCall) ==
    LET kept == SelectSeq(byCall, LAMBDA data : data.method # NoText) IN
    [k \in 1..Len(kept) |-> CallEntry(root, kept[k])]

FindCalls(root, order) ==
    LET caps == ExecuteCallsQuery(root, order) IN
    EmitCalls(root, CorrelateCalls(root, SeedCalls(caps), caps))

\* the files: dot calls alone, nested in arguments, chained, one after another,
\* and inside a function of a module
Arguments(items) ==
    Inner("arguments",
          <<Token("(")>>
          \o Concat([k \in 1..Len(items) |->
                        IF k = 1 THEN <<items[k]>> ELSE <<Token(","), items[k]>>])
          \o <<Token(")")>>,
          NoGap)

\* receiver.method or receiver.method(items)
DotCall(receiver, method, arguments) ==
    Inner("call",
          <<Inner("dot", <<receiver, Token("."), Identifier(method)>>, NoGap)>>
          \o arguments,
          NoGap)

ModuleDefinition(body) ==
    Inner("call",
          <<Identifier("defmodule"),
            Inner("arguments", <<Alias("A")>>, NoGap),
            DoBlock(<<body>>)>>,
          Space)

Source(expressions) == Inner("source", expressions, Chars["\n"])

SimpleCalls ==
    {DotCall(Alias(r), m, a) :
        r \in {"A", "B"}, m \in {"f", "g"},
        a \in {<<>>, <<Arguments(<<Identifier("x")>>)>>}}
NestedCalls ==
    {DotCall(Alias("A"), "f", <<Arguments(items)>>) :
        items \in UNION {{<<c>>, <<Identifier("x"), c>>, <<c, Identifier("x")>>} :
                            c \in SimpleCalls}}
ChainedCalls ==
    {DotCall(c, "g", <<Arguments(<<Identifier("x")>>)>>) : c \in SimpleCalls}
CallFiles ==
    {Source(<<c>>) : c \in SimpleCalls \cup NestedCalls \cup ChainedCalls}
    \cup {Source(<<c, d>>) :
            c \in {DotCall(Alias("A"), "f", <<>>)},
            d \in SimpleCalls}
    \cup {Source(<<FunctionDefinition(c)>>) : c \in SimpleCalls}
    \cup {Source(<<ModuleDefinition(FunctionDefinition(c))>>) : c \in NestedCalls}

InitFindCalls ==
    /\ DownloadIdle
    /\ RegistryIdle
    /\ ArgsIdle
    /\ ExIdle
    /\ ScopeIdle
    /\ IngestIdle
    /\ PreScanIdle
    /\ ConcurrentIdle
    /\ LabelIdle
    /\ ComplexityIdle
    /\ fcRoot \in CallFiles
    /\ fcOrder \in CaptureOrders
    /\ fcCalls = <<>>
    /\ fcPc = "tree"

\* function_calls = self._find_calls(root_node)
ParseCalls ==
    /\ fcPc = "tree"
    /\ fcCalls' = FindCalls(fcRoot, fcOrder)
    /\ fcPc' = "found"
    /\ UNCHANGED <<fcRoot, fcOrder, argsVars, exVars, scopeVars, ingVars, psVars, coVars, lbVars, cxVars, brVars, dlVars>>

NextFindCalls == ParseCalls

SpecFindCalls == InitFindCalls /\ [][NextFindCalls]_vars

\* the call nodes of the file in document order, each a path
DotCallNodes(root) ==
    SelectSeq(Preorder(root, <<>>), LAMBDA c : CallMatchAt(root, c) # <<>>)

\* the texts of the receiver and of the method of the call node c
ReceiverOf(root, c) == NodeAt(root, CallMatchAt(root, c)[1][1]).text
MethodOf(root, c) == NodeAt(root, CallMatchAt(root, c)[2][1]).text

\* C28: every call record's name and full_name are the method and the
\* receiver of the record's own call node, also for a dot call inside the
\* arguments of another one, whatever the order of the captures.
C28_RecordNamesItsOwnCall ==
    fcPc = "found" =>
        LET nodes == DotCallNodes(fcRoot) IN
        /\ Len(fcCalls) = Len(nodes)
        /\ \A k \in 1..Len(nodes) :
               /\ fcCalls[k].name = MethodOf(fcRoot, nodes[k])
               /\ fcCalls[k].full_name =
                      ReceiverOf(fcRoot, nodes[k]) \o <<".">>
                      \o MethodOf(fcRoot, nodes[k])

-----------------------------------------------------------------------------
(***************************************************************************)
(* BundleRegistry.find_bundle_download_info (bundle_registry.py:100-141).  *)
(* A bundle is the dictionary fetch_available_bundles returns for it; a    *)
(* key the dictionary lacks, or holds empty, is the empty text.            *)
(***************************************************************************)

MaxBundles == 2

\* str.lower() on the characters of the names
LowerChar(c) == IF c = "F" THEN "f" ELSE IF c = "G" THEN "g" ELSE c
Lower(s) == [k \in 1..Len(s) |-> LowerChar(s[k])]

\* the order of the characters of the timestamps
CharOrd(c) == CASE c = "0" -> 48 [] c = "1" -> 49 [] c = "2" -> 50 [] OTHER -> 0

\* s < t for two str
RECURSIVE StrLess(_, _)
StrLess(s, t) ==
    IF t = <<>> THEN FALSE
    ELSE IF s = <<>> THEN TRUE
    ELSE IF s[1] = t[1] THEN StrLess(Tail(s), Tail(t))
    ELSE CharOrd(s[1]) < CharOrd(t[1])

\* matching_bundles.sort(key=..., reverse=True) leaves the list as it is
UnsortedBundles(matching) == matching

\* matching_bundles.sort(key=lambda x: x.get('generated_at', ''), reverse=True);
\* the sort is stable
RECURSIVE SortNewestFirst(_)
SortNewestFirst(matching) ==
    IF matching = <<>> THEN <<>>
    ELSE LET first == Min({k \in 1..Len(matching) :
                              \A j \in 1..Len(matching) :
                                  ~StrLess(matching[k].generated_at,
                                           matching[j].generated_at)})
         IN <<matching[first]>>
            \o SortNewestFirst([k \in 1..(Len(matching) - 1) |->
                                   IF k < first THEN matching[k]
                                   ELSE matching[k + 1]])

\* the tuple (download_url, bundle_metadata, error_message); the metadata is
\* a list of one bundle, or empty for None
WithUrl(b) ==
    IF b.download_url # NoText
    THEN [url |-> b.download_url, bundle |-> <<b>>, error |-> ""]
    ELSE [url |-> NoText, bundle |-> <<b>>, error |-> "No download URL found"]

FindBundleDownloadInfo(bundles, name) ==
    LET name_lower == Lower(name)
        exact == SelectSeq(bundles, LAMBDA b : Lower(b.full_name) = name_lower)
        matching_bundles ==
            SelectSeq(bundles, LAMBDA b : Lower(b.name) = name_lower) IN
    IF bundles = <<>>
    THEN [url |-> NoText, bundle |-> <<>>,
          error |-> "Could not fetch bundle registry."]
    ELSE IF exact # <<>> THEN WithUrl(Head(exact))
    ELSE IF matching_bundles # <<>>
         THEN WithUrl(Head(SortNewestFirst(matching_bundles)))
    ELSE [url |-> NoText, bundle |-> <<>>, error |-> "not found in registry"]

\* the bundles of the registry and the names asked for
BundleNames == {<<"f">>, <<"F">>, <<"g">>}
BundleFullNames == {<<"f">>, <<"F", "-", "1">>, <<"g", "-", "1">>}
Timestamps == {<<>>, <<"1", "0">>, <<"2">>}
Bundles ==
    [name : BundleNames, full_name : BundleFullNames,
     generated_at : Timestamps, download_url : {NoText, <<"u">>}]
RequestedNames == {<<"f">>, <<"f", "-", "1">>, <<"G">>}

InitRegistry ==
    /\ DownloadIdle
    /\ ArgsIdle
    /\ ExIdle
    /\ ScopeIdle
    /\ IngestIdle
    /\ PreScanIdle
    /\ ConcurrentIdle
    /\ LabelIdle
    /\ ComplexityIdle
    /\ FindCallsIdle
    /\ brBundles \in UNION {[1..n -> Bundles] : n \in 0..MaxBundles}
    /\ brName \in RequestedNames
    /\ brResult = <<>>
    /\ brPc = "call"

\* find_bundle_download_info(name)
FindBundle ==
    /\ brPc = "call"
    /\ brResult' = FindBundleDownloadInfo(brBundles, brName)
    /\ brPc' = "returned"
    /\ UNCHANGED <<brBundles, brName, argsVars, exVars, scopeVars, ingVars, psVars, coVars, lbVars, cxVars, fcVars, dlVars>>

NextRegistry == FindBundle

SpecRegistry == InitRegistry /\ [][NextRegistry]_vars

\* the positions of the bundles whose full_name, and whose base name, equals
\* the requested name, letter case aside
FullNameMatches ==
    {k \in 1..Len(brBundles) : Lower(brBundles[k].full_name) = Lower(brName)}
BaseNameMatches ==
    {k \in 1..Len(brBundles) : Lower(brBundles[k].name) = Lower(brName)}

\* C26: the bundle returned is one whose full_name is the requested name
\* whenever there is one; only otherwise it is, among the bundles whose base
\* name is the requested name, one with the greatest generated_at.
C26_FullNameFirstThenNewestBaseName ==
    brPc = "returned" =>
        /\ FullNameMatches # {} =>
               \E k \in FullNameMatches : brResult.bundle = <<brBundles[k]>>
        /\ FullNameMatches = {} /\ BaseNameMatches # {} =>
               \E k \in BaseNameMatches :
                   /\ brResult.bundle = <<brBundles[k]>>
                   /\ \A j \in BaseNameMatches :
                          ~StrLess(brBundles[k].generated_at,
                                   brBundles[j].generated_at)

\* no full_name matches; of two bundles with the base name the later one in
\* the list is the newer, and it is the one returned
C26_Witness ==
    /\ brPc = "returned"
    /\ FullNameMatches = {}
    /\ BaseNameMatches = {1, 2}
    /\ StrLess(brBundles[1].generated_at, brBundles[2].generated_at)
    /\ brResult.bundle = <<brBundles[2]>>

-----------------------------------------------------------------------------
(***************************************************************************)
(* BundleRegistry.download_file (bundle_registry.py:144-171).  The file at *)
(* output_path is a record: whether it exists, and the bytes it holds.     *)
(* Every call inside the try block either succeeds or raises.              *)
(***************************************************************************)

MaxChunks == 2

\* the partial file stays where it is
KeepFile(file) == file

\* if output_path.exists(): output_path.unlink()
Unlink(file) ==
    IF file.exists THEN [exists |-> FALSE, content |-> <<>>] ELSE file

\* open(output_path, 'wb')
OpenForWriting(file) == [exists |-> TRUE, content |-> <<>>]

\* f.write(chunk)
WriteTo(file, chunk) == [file EXCEPT !.content = @ \o chunk]

Chunks == {<<>>, <<"x">>, <<"y", "z">>}

InitDownload ==
    /\ ArgsIdle
    /\ ExIdle
    /\ ScopeIdle
    /\ IngestIdle
    /\ PreScanIdle
    /\ ConcurrentIdle
    /\ LabelIdle
    /\ ComplexityIdle
    /\ FindCallsIdle
    /\ RegistryIdle
    /\ dlBody \in UNION {[1..n -> Chunks] : n \in 0..MaxChunks}
    /\ dlFile \in {[exists |-> FALSE, content |-> <<>>],
                   [exists |-> TRUE, content |-> <<"o">>]}
    /\ dlCallback \in BOOLEAN
    /\ dlPos = 0
    /\ dlReported = <<>>
    /\ dlFailure = "none"
    /\ dlResult = "none"
    /\ dlPc = "request"

\* an exception raised at the place pc names takes control to the handler
Fails(at, failure) ==
    /\ dlPc = at
    /\ dlFailure' = failure
    /\ dlPc' = "except"
    /\ UNCHANGED <<dlBody, dlCallback, dlPos, dlResult>>
    /\ UNCHANGED <<argsVars, exVars, scopeVars, ingVars, psVars, coVars, lbVars, cxVars, fcVars, brVars>>

\* response = requests.get(url, stream=True, timeout=30)
Request ==
    /\ dlPc = "request"
    /\ dlPc' = "status"
    /\ UNCHANGED <<dlBody, dlFile, dlCallback, dlPos, dlReported, dlFailure, dlResult>>
    /\ UNCHANGED <<argsVars, exVars, scopeVars, ingVars, psVars, coVars, lbVars, cxVars, fcVars, brVars>>

FailRequest == Fails("request", "RequestException") /\ UNCHANGED <<dlFile, dlReported>>

\* response.raise_for_status()
RaiseForStatus ==
    /\ dlPc = "status"
    /\ dlPc' = "open"
    /\ UNCHANGED <<dlBody, dlFile, dlCallback, dlPos, dlReported, dlFailure, dlResult>>
    /\ UNCHANGED <<argsVars, exVars, scopeVars, ingVars, psVars, coVars, lbVars, cxVars, fcVars, brVars>>

FailStatus == Fails("status", "HTTPError") /\ UNCHANGED <<dlFile, dlReported>>

\* with open(output_path, 'wb') as f:
OpenOutput ==
    /\ dlPc = "open"
    /\ dlFile' = OpenForWriting(dlFile)
    /\ dlPos' = 1
    /\ dlPc' = "chunks"
    /\ UNCHANGED <<dlBody, dlCallback, dlReported, dlFailure, dlResult>>
    /\ UNCHANGED <<argsVars, exVars, scopeVars, ingVars, psVars, coVars, lbVars, cxVars, fcVars, brVars>>

FailOpen == Fails("open", "OSError") /\ UNCHANGED <<dlFile, dlReported>>

\* one round of `for chunk in response.iter_content(chunk_size=8192):`
WriteChunk ==
    /\ dlPc = "chunks"
    /\ dlPos <= Len(dlBody)
    /\ LET chunk == dlBody[dlPos] IN
       /\ dlFile' = IF chunk # <<>> THEN WriteTo(dlFile, chunk) ELSE dlFile
       /\ dlReported' = IF chunk # <<>> /\ dlCallback
                        THEN Append(dlReported, Len(chunk)) ELSE dlReported
    /\ dlPos' = dlPos + 1
    /\ UNCHANGED <<dlBody, dlCallback, dlFailure, dlResult, dlPc>>
    /\ UNCHANGED <<argsVars, exVars, scopeVars, ingVars, psVars, coVars, lbVars, cxVars, fcVars, brVars>>

\* iter_content raises instead of yielding the next chunk, or at the end
FailIterContent ==
    /\ Fails("chunks", "ChunkedEncodingError")
    /\ UNCHANGED <<dlFile, dlReported>>

\* f.write(chunk) raises; some part of the chunk may have been written
FailWrite ==
    /\ dlPc = "chunks"
    /\ dlPos <= Len(dlBody)
    /\ dlBody[dlPos] # <<>>
    /\ Fails("chunks", "OSError")
    /\ \E n \in 0..(Len(dlBody[dlPos]) - 1) :
           dlFile' = WriteTo(dlFile, SubSeq(dlBody[dlPos], 1, n))
    /\ UNCHANGED dlReported

\* progress_callback(len(chunk)) raises, the chunk is written
FailProgressCallback ==
    /\ dlPc = "chunks"
    /\ dlPos <= Len(dlBody)
    /\ dlBody[dlPos] # <<>>
    /\ dlCallback
    /\ Fails("chunks", "CallbackError")
    /\ dlFile' = WriteTo(dlFile, dlBody[dlPos])
    /\ UNCHANGED dlReported

\* the with block is left and `return True`
ReturnTrue ==
    /\ dlPc = "chunks"
    /\ dlPos > Len(dlBody)
    /\ dlResult' = "True"
    /\ dlPc' = "returned"
    /\ UNCHANGED <<dlBody, dlFile, dlCallback, dlPos, dlReported, dlFailure>>
    /\ UNCHANGED <<argsVars, exVars, scopeVars, ingVars, psVars, coVars, lbVars, cxVars, fcVars, brVars>>

\* except Exception as e: the partial file is removed and e raised again
CleanUpAndRaise ==
    /\ dlPc = "except"
    /\ dlFile' = Unlink(dlFile)
    /\ dlResult' = dlFailure
    /\ dlPc' = "raised"
    /\ UNCHANGED <<dlBody, dlCallback, dlPos, dlReported, dlFailure>>
    /\ UNCHANGED <<argsVars, exVars, scopeVars, ingVars, psVars, coVars, lbVars, cxVars, fcVars, brVars>>

NextDownload ==
    \/ Request
    \/ FailRequest
    \/ RaiseForStatus
    \/ FailStatus
    \/ OpenOutput
    \/ FailOpen
    \/ WriteChunk
    \/ FailIterContent
    \/ FailWrite
    \/ FailProgressCallback
    \/ ReturnTrue
    \/ CleanUpAndRaise

SpecDownload == InitDownload /\ [][NextDownload]_vars

\* C27: after a failed download_file no file exists at output_path and the
\* exception has reached the caller; True is returned only after the whole
\* response body has been written.
C27_FailureLeavesNoFileAndRaises ==
    /\ dlFailure # "none" => dlPc \in {"except", "raised"}
    /\ dlPc = "raised" => ~dlFile.exists /\ dlResult = dlFailure
    /\ dlResult = "True" =>
           /\ dlFailure = "none"
           /\ dlFile.exists
           /\ dlFile.content = Concat(dlBody)

\* a write failed at the second chunk, behind a first chunk that was written
C27_Witness ==
    /\ dlPc = "raised"
    /\ dlFailure = "OSError"
    /\ dlPos = 2
    /\ dlBody[1] # <<>>
    /\ ~dlFile.exists

=============================================================================
